---- MODULE Spec2Model ----
(***************************************************************************)
(* AFOT universal flashing tool (src/flash_tools/afot_flash.py).           *)
(*                                                                         *)
(* One run of the tool is modelled as a state machine, entered either at   *)
(* AFOTFlashTool.flash_device (Spec) or at main (SpecMain):                *)
(* the tool object built by __init__ (device registry, located tools),     *)
(* the inputs of the run (codename, ROM path, archive members), the host   *)
(* file system as far as the tool reads and writes it, the attached        *)
(* device, and the position of the run in flash_device and the methods it  *)
(* calls.  Every external command goes through run_command; what the       *)
(* external program does (exit 0, exit non-zero, never finish, fail to     *)
(* start) is chosen by the environment.                                    *)
(***************************************************************************)
EXTENDS Integers, Sequences, FiniteSets, TLC

\* ------------------------------------------------------------------------
\* Bounds of the model
\* ------------------------------------------------------------------------

\* Largest number of members of a firmware archive given to a run.
MaxMembers == 2

\* Largest number of files left in the extraction directory by earlier runs.
MaxStale == 1

\* ------------------------------------------------------------------------
\* Program constants
\* ------------------------------------------------------------------------

\* timeout=300 of a fastboot flash command, timeout=600 of the heimdall one.
FASTBOOT_FLASH_TIMEOUT == 300
HEIMDALL_FLASH_TIMEOUT == 600

\* Optional[int]: timeout=None, the default of _run_command, and timeout=n.
NoTimeout == <<>>
Timeout(n) == <<n>>

\* FlashMethod
FASTBOOT == "fastboot"
ODIN == "odin"
HEIMDALL == "heimdall"
SP_FLASH_TOOL == "sp_flash_tool"
ADB_SIDELOAD == "adb_sideload"
FlashMethod == {FASTBOOT, ODIN, HEIMDALL, SP_FLASH_TOOL, ADB_SIDELOAD}

\* The value None of an Optional[Path] field.
None == [dir |-> "", name |-> ""]

\* _load_devices_database: the registry.  partitions is the dict's key
\* order (dicts iterate in insertion order).
devices_db ==
  [ j5nlte |->
      [ codename |-> "j5nlte", manufacturer |-> "samsung",
        flash_method |-> HEIMDALL, bootloader_mode |-> "download",
        partitions |-> <<"BOOT", "RECOVERY", "SYSTEM", "USERDATA", "CACHE">>,
        special_instructions |-> 3,
        requires_unlock |-> TRUE, supports_ab |-> FALSE ],
    j5xnlte |->
      [ codename |-> "j5xnlte", manufacturer |-> "samsung",
        flash_method |-> HEIMDALL, bootloader_mode |-> "download",
        partitions |-> <<"BOOT", "RECOVERY", "SYSTEM", "USERDATA", "CACHE">>,
        special_instructions |-> 3,
        requires_unlock |-> TRUE, supports_ab |-> FALSE ],
    sailfish |->
      [ codename |-> "sailfish", manufacturer |-> "google",
        flash_method |-> FASTBOOT, bootloader_mode |-> "fastboot",
        partitions |-> <<"boot_a", "boot_b", "system_a", "system_b",
                         "vendor_a", "vendor_b">>,
        special_instructions |-> 3,
        requires_unlock |-> TRUE, supports_ab |-> TRUE ],
    gsi |->
      [ codename |-> "gsi", manufacturer |-> "generic",
        flash_method |-> FASTBOOT, bootloader_mode |-> "fastboot",
        partitions |-> <<"system">>,
        special_instructions |-> 3,
        requires_unlock |-> TRUE, supports_ab |-> FALSE ] ]

Codenames == DOMAIN devices_db

\* A codename that is not a key of the registry.
UnknownCodename == "herolte"

\* Profiles for the flash methods that no profile of the shipped registry
\* uses, one for each: DeviceFlashConfig objects a caller can add to
\* devices_db.  They are keyed by the value of their flash method.
OtherMethods == {ODIN, SP_FLASH_TOOL, ADB_SIDELOAD}
OtherProfile(method) ==
  [ codename |-> method, manufacturer |-> "generic",
    flash_method |-> method, bootloader_mode |-> "download",
    partitions |-> <<"boot", "system">>,
    special_instructions |-> 0,
    requires_unlock |-> FALSE, supports_ab |-> FALSE ]

\* The shipped registry with those profiles added.
devices_db_extended ==
  [c \in Codenames \cup OtherMethods |->
     IF c \in Codenames THEN devices_db[c] ELSE OtherProfile(c)]

\* ------------------------------------------------------------------------
\* File names and paths
\* ------------------------------------------------------------------------

\* The image roles a FlashPackage has a field for.
Roles == {"boot", "recovery", "system", "vendor", "userdata", "cache"}

\* Names an archive member can have.  "BOOT.img" matches the glob "*.img"
\* and its stem lower-cases to "boot"; "notes.txt" does not match the glob;
\* "modem.img" matches the glob and no role.
FileNames == {"boot.img", "BOOT.img", "recovery.img", "system.img",
              "vendor.img", "userdata.img", "cache.img", "modem.img",
              "notes.txt"}

\* Path.suffix of a file name.
Suffix(name) ==
  IF name = "notes.txt" THEN ".txt" ELSE ".img"

\* Path.stem.lower() of a file name.
StemLower(name) ==
  CASE name = "boot.img" -> "boot"
    [] name = "BOOT.img" -> "boot"
    [] name = "recovery.img" -> "recovery"
    [] name = "system.img" -> "system"
    [] name = "vendor.img" -> "vendor"
    [] name = "userdata.img" -> "userdata"
    [] name = "cache.img" -> "cache"
    [] name = "modem.img" -> "modem"
    [] OTHER -> "notes"

\* The ROM path of a run, by its suffix.
RomSuffixes == {".zip", ".img", ".IMG", ".tar", ".bin"}
RomPath(suffix) == [dir |-> "rom", name |-> suffix]

\* rom_path.suffix.lower()
SuffixLower(path) == IF path.name = ".IMG" THEN ".img" ELSE path.name

\* extract_dir / name
ExtractedPath(name) == [dir |-> "extracted", name |-> name]

\* Names of files an earlier extraction of an archive of the same stem can
\* have left in the extraction directory, which is never removed.
StaleNames == {"BOOT.img", "recovery.img", "vendor.img"}

Subsets(S, n) == {T \in SUBSET S : Cardinality(T) <= n}

\* ------------------------------------------------------------------------
\* State
\* ------------------------------------------------------------------------

VARIABLES
  adb_path,         \* self.adb_path: TRUE when _find_tool found adb
  fastboot_path,    \* self.fastboot_path
  heimdall_path,    \* self.heimdall_path
  device_codename,  \* argument of flash_device
  rom_path,         \* argument of flash_device (a RomPath)
  rom_exists,       \* whether the ROM file is on disk
  archive,          \* the member names of the ROM archive, once opened
  extract_dir,      \* the file names in <stem>_extracted on disk
  devLocked,        \* the attached device's bootloader is locked
  pc,               \* where the run is
  package,          \* the FlashPackage: role -> path or None
  flash_commands,   \* the plan: the steps of the commands to run
  idx,              \* the for loop's position in flash_commands
  cmds,             \* the external commands run so far, with their results
  echoed,           \* how many special instructions were logged
  result,           \* what flash_device returned
  reason,           \* the last logger.error of the run
  phases,           \* the orchestrator states the run has passed through
  registry,         \* self.devices_db
  odin3_exe,        \* os.path.exists("odin3.exe") in the working directory
  probes,           \* the commands of the detect_device call of main
  exit_code,        \* the exit status of the process, <<>> while it runs
  dir_exists,       \* <stem>_extracted is a directory on disk
  made_dir,         \* this run has called extract_dir.mkdir
  listing,          \* the order in which the file system lists extract_dir
  first,            \* what the first of two calls of an operation returned
  second,           \* what the second call returned
  detect_env,       \* what each command of detect_device can be answered
  caller,           \* the entry point of the run
  options,          \* wipe_data and backup_efs, arguments of flash_device
  build_config,     \* self.config of the build system (a BuildConfig)
  build_root        \* what self.build_root of the build system is on disk

\* The flashing tool has no build configuration.
NoBuild == <<>>

\* line 429: wipe_data: bool = False, backup_efs: bool = True
DefaultOptions == [wipe_data |-> FALSE, backup_efs |-> TRUE]
Options == [wipe_data : BOOLEAN, backup_efs : BOOLEAN]

tool == <<adb_path, fastboot_path, heimdall_path>>
input == <<device_codename, rom_path, rom_exists, archive>>
fixed == <<odin3_exe, detect_env, caller, options, build_config,
          build_root>>
aux == <<odin3_exe, probes, exit_code, detect_env, caller, options,
        build_config, build_root>>
dirstate == <<dir_exists, made_dir>>
repeated == <<listing, first, second>>
vars == <<adb_path, fastboot_path, heimdall_path, device_codename, rom_path,
          rom_exists, archive, extract_dir, devLocked, pc, package,
          flash_commands, idx, cmds, echoed, result, reason, phases,
          registry, odin3_exe, probes, exit_code, dir_exists, made_dir,
          listing, first, second, detect_env, caller, options,
          build_config, build_root>>

\* A registry that loses the profile an operation was called for.
DevicesDbConsumed(db) ==
  [c \in DOMAIN db \ {device_codename} |-> db[c]]

\* self.devices_db after a step of any operation: __init__ assigns the
\* attribute once (line 68) and every later use of it is a membership test,
\* a subscript or an iteration (lines 223, 236, 434, 438, 506, 513); the
\* profile passed on as device_config is only read.
DevicesDbKept(db) == db

\* FlashPackage(rom_file=rom_path): every image field None.
EmptyPackage == [r \in Roles |-> None]

\* Path.exists()
Exists(path) ==
  IF path.dir = "rom" THEN rom_exists ELSE path.name \in extract_dir

\* ------------------------------------------------------------------------
\* _run_command
\* ------------------------------------------------------------------------

\* What the external program does: exit 0, exit non-zero, never finish,
\* fail to start (subprocess.run raises).
Behaviours == {"exit0", "exit1", "hang", "oserror"}

\* _run_command never returns: subprocess.run without a timeout on a program
\* that never finishes.
Blocks(beh, timeout) == beh = "hang" /\ timeout = NoTimeout

\* A _run_command whose TimeoutExpired handler reports success.
run_command_timeout_ok(beh, timeout) ==
  CASE beh = "exit0" -> [ret |-> 0, stderr |-> ""]
    [] beh = "exit1" -> [ret |-> 1, stderr |-> "error"]
    [] beh = "hang" -> [ret |-> 0, stderr |-> "Command timed out"]
    [] OTHER -> [ret |-> -1, stderr |-> "str(e)"]

\* What _run_command returns when it returns: the return code and the
\* standard error (the standard output is chosen with Stdouts).
run_command(beh, timeout) ==
  CASE beh = "exit0" -> [ret |-> 0, stderr |-> ""]
    [] beh = "exit1" -> [ret |-> 1, stderr |-> "error"]
    [] beh = "hang" -> [ret |-> -1, stderr |-> "Command timed out"]
    [] OTHER -> [ret |-> -1, stderr |-> "str(e)"]

\* The standard outputs a program can give; "" on both except paths.
Stdouts(beh, outs) == IF beh \in {"exit0", "exit1"} THEN outs ELSE {""}

\* A command, and a command with its result in the log.
Command(t, op, args, timeout) ==
  [tool |-> t, op |-> op, args |-> args, timeout |-> timeout]
RanWith(cmd, res, stdout) ==
  [cmd |-> cmd, ret |-> res.ret, stdout |-> stdout, stderr |-> res.stderr,
   returned |-> TRUE]
\* A command whose standard output the caller does not read.
Ran(cmd, res) == RanWith(cmd, res, "")
\* A command that was started and never returned.
NeverReturned(cmd) ==
  [cmd |-> cmd, ret |-> -1, stdout |-> "", stderr |-> "", returned |-> FALSE]

\* ------------------------------------------------------------------------
\* Construction and the inputs of a run
\* ------------------------------------------------------------------------

\* The tool object after __init__, the host and the device, before the
\* run has done anything.
InitCommon ==
  /\ adb_path \in BOOLEAN
  /\ fastboot_path \in BOOLEAN
  /\ heimdall_path \in BOOLEAN
  /\ rom_path \in {RomPath(sfx) : sfx \in RomSuffixes}
  /\ rom_exists \in BOOLEAN
  /\ archive = {}
  /\ extract_dir \in Subsets(StaleNames, MaxStale)
  /\ devLocked \in BOOLEAN
  /\ package = EmptyPackage
  /\ flash_commands = <<>>
  /\ idx = 1
  /\ cmds = <<>>
  /\ echoed = 0
  /\ result = "none"
  /\ reason = ""
  /\ phases = <<"Idle">>
  /\ probes = <<>>
  /\ exit_code = <<>>
  /\ dir_exists = (extract_dir # {})
  /\ made_dir = FALSE
  /\ listing = <<>>
  /\ first = <<>>
  /\ second = <<>>

\* A call of flash_device on the tool as constructed.
Init ==
  /\ InitCommon
  /\ detect_env = <<>>
  /\ caller = "flash_device"
  /\ build_config = NoBuild /\ build_root = "missing"
  /\ options = DefaultOptions
  /\ registry = devices_db
  /\ odin3_exe = FALSE
  /\ device_codename \in Codenames \cup {UnknownCodename}
  /\ pc = "flash_device"

\* return False after logger.error(msg), from orchestrator states ph
ReturnFalseFrom(ph, msg) ==
  /\ pc' = "done"
  /\ result' = "False"
  /\ reason' = msg
  /\ phases' = Append(ph, "Failed")

ReturnFalse(msg) == ReturnFalseFrom(phases, msg)

\* ------------------------------------------------------------------------
\* flash_device, lines 431-449: registry lookup, special instructions
\* ------------------------------------------------------------------------

\* What the lookup gives for a codename that is not a key of the registry.
NotFound == [codename |-> ""]

\* A lookup that falls back to the generic profile.
LookupOrGeneric(codename) ==
  IF codename \in DOMAIN registry THEN registry[codename] ELSE registry["gsi"]

\* A lookup that gives both Galaxy J5 codenames the profile of the first.
LookupByModelFamily(codename) ==
  IF codename \in DOMAIN registry
    THEN IF codename = "j5xnlte" THEN registry["j5nlte"] ELSE registry[codename]
    ELSE NotFound

\* lines 434-438: self.devices_db[codename] behind its membership test
Lookup(codename) ==
  IF codename \in DOMAIN registry THEN registry[codename] ELSE NotFound

\* A display that logs the heading and none of the instructions.
ShowHeadingOnly(special_instructions) == 0

\* lines 445-449: how many of the instructions are logged, at level INFO,
\* which basicConfig (lines 22-29) sends to the log file and to stdout.
\* An empty list logs nothing; otherwise the loop logs each one.
ShowSpecialInstructions(special_instructions) ==
  IF special_instructions > 0 THEN special_instructions ELSE 0

FlashDeviceLookup ==
  /\ pc = "flash_device"
  /\ IF Lookup(device_codename) = NotFound
       THEN /\ ReturnFalse("Unsupported device")
            /\ UNCHANGED echoed
       ELSE /\ pc' = "check_prerequisites"
            /\ echoed' = ShowSpecialInstructions(
                         Lookup(device_codename).special_instructions)
            /\ UNCHANGED <<result, reason, phases>>
  /\ registry' = DevicesDbKept(registry)
  /\ UNCHANGED <<repeated,
                 aux, dirstate, tool, input, extract_dir, devLocked, package,
                 flash_commands, idx, cmds>>

device_config == Lookup(device_codename)

\* ------------------------------------------------------------------------
\* check_prerequisites
\* ------------------------------------------------------------------------

\* A check that finds every tool.
RequiredToolsAssumed(method) == TRUE

\* required_tools.get(flash_method, []): whether every listed tool is there.
\* "odin3.exe" is a relative name that os.path.exists looks up in the
\* working directory.
RequiredToolsPresent(method) ==
  CASE method = FASTBOOT -> fastboot_path /\ adb_path
    [] method = HEIMDALL -> heimdall_path
    [] method = ADB_SIDELOAD -> adb_path
    [] method = ODIN -> odin3_exe
    [] OTHER -> TRUE

\* str.strip() of the standard outputs of the model
Strip(stdout) ==
  CASE stdout = "\n" -> ""
    [] stdout = "j5nlte\n" -> "j5nlte"
    [] stdout = "herolte\n" -> "herolte"
    [] OTHER -> stdout

\* What 'fastboot devices' can print: nothing, an empty line, one device.
\* The output of 'heimdall detect' is not read.
DeviceListings(method) ==
  IF method = FASTBOOT THEN {"", "\n", "serial fastboot"} ELSE {""}

\* An enumeration that counts as a device whenever the tool exits 0.
NoDeviceByStatus(method, ret, stdout) == ret # 0

\* lines 263-272: the enumeration says that no device is connected
NoDevice(method, ret, stdout) ==
  CASE method = FASTBOOT -> ret # 0 \/ Strip(stdout) = ""
    [] method = HEIMDALL -> ret # 0
    [] OTHER -> FALSE

CheckPrerequisites ==
  /\ pc = "check_prerequisites"
  /\ LET method == device_config.flash_method IN
     IF ~RequiredToolsPresent(method)
       THEN /\ ReturnFalse("Missing required tools")
            /\ UNCHANGED cmds
       ELSE
         \E beh \in Behaviours :
           \E stdout \in Stdouts(beh, DeviceListings(method)) :
             LET cmd == IF method = FASTBOOT
                          THEN Command("fastboot", "devices", <<>>, NoTimeout)
                          ELSE Command("heimdall", "detect", <<>>, NoTimeout)
                 res == run_command(beh, NoTimeout)
             IN
             IF method \notin {FASTBOOT, HEIMDALL}
               THEN /\ pc' = "prepare_flash_package"
                    /\ phases' = Append(phases, "PrerequisitesChecked")
                    /\ UNCHANGED <<cmds, result, reason>>
             ELSE IF Blocks(beh, NoTimeout)
               THEN /\ pc' = "blocked"
                    /\ cmds' = Append(cmds, NeverReturned(cmd))
                    /\ UNCHANGED <<result, reason, phases>>
             ELSE IF NoDevice(method, res.ret, stdout)
               THEN /\ ReturnFalse(IF method = FASTBOOT
                                     THEN "No device detected in fastboot mode"
                                     ELSE "No device detected in download mode")
                    /\ cmds' = Append(cmds, RanWith(cmd, res, stdout))
             ELSE /\ pc' = "prepare_flash_package"
                  /\ phases' = Append(phases, "PrerequisitesChecked")
                  /\ cmds' = Append(cmds, RanWith(cmd, res, stdout))
                  /\ UNCHANGED <<result, reason>>
  /\ registry' = DevicesDbKept(registry)
  /\ UNCHANGED <<repeated,
                 aux, dirstate, tool, input, extract_dir, devLocked, package,
                 flash_commands, idx, echoed>>

\* ------------------------------------------------------------------------
\* prepare_flash_package
\* ------------------------------------------------------------------------

\* extract_dir.glob("*.img")
Glob(dir) == {n \in dir : Suffix(n) = ".img"}

\* A binding by the expected file name, whether or not the file is there.
BoundByName(dir, r) ==
  {[dir |-> "extracted",
    name |-> CHOOSE n \in FileNames : StemLower(n) = r /\ n # "BOOT.img"]}

\* What the for loop over the glob can leave in the field of role r: None
\* when no globbed file has the lower-cased stem r, else such a file.  When
\* two files have the same lower-cased stem, the one the directory lists
\* last wins, and the order of a directory listing is the file system's.
Bound(dir, r) ==
  LET files == {n \in Glob(dir) : StemLower(n) = r} IN
  IF files = {} THEN {None} ELSE {ExtractedPath(n) : n \in files}

\* The image fields of FlashPackage, in the order of the dataclass.
PackageFields == <<"recovery", "boot", "system", "vendor", "userdata", "cache">>

RECURSIVE PackagesOver(_, _)
PackagesOver(dir, fields) ==
  IF fields = <<>> THEN {EmptyPackage}
  ELSE {[p EXCEPT ![Head(fields)] = img] :
          p \in PackagesOver(dir, Tail(fields)),
          img \in Bound(dir, Head(fields))}

\* The packages prepare_flash_package can return for a zip whose extraction
\* directory holds dir.
ZipPackages(dir) == PackagesOver(dir, PackageFields)

\* A raw image bound as the boot image as well.
ImgPackageAlsoBoot(path) ==
  [EmptyPackage EXCEPT !["system"] = path, !["boot"] = path]

\* FlashPackage(rom_file=rom_path, system_file=rom_path)
ImgPackage(path) == [EmptyPackage EXCEPT !["system"] = path]

\* A dispatch that takes every flash method as handled.
ImplementedAll(method) == TRUE

\* lines 468-471: the flash methods flash_device has a branch for
Implemented(method) == method \in {FASTBOOT, HEIMDALL}

\* An EFS backup that pulls the partition off a Samsung device.
EfsBackupPulled(opts, manufacturer) ==
  IF opts.backup_efs /\ manufacturer = "samsung"
    THEN <<RanWith(Command("adb", "pull efs", <<>>, NoTimeout),
                   [ret |-> 0, stderr |-> ""], "")>>
    ELSE <<>>

\* lines 460-463: the commands the options add to the run.  backup_efs
\* decides on one logger.info line for a Samsung profile ("Implementation
\* for EFS backup" is a comment) and wipe_data is read nowhere.
EfsBackup(opts, manufacturer) == <<>>

\* flash_device, lines 460-474, what follows a returned package: the EFS
\* backup does nothing, then the dispatch on the flash method.
Dispatch(method) ==
  CASE method = FASTBOOT -> "flash_fastboot"
    [] method = HEIMDALL -> "flash_heimdall"
    [] OTHER -> "done"

PrepareFlashPackage ==
  /\ pc = "prepare_flash_package"
  /\ IF rom_exists /\ SuffixLower(rom_path) \in {".zip", ".tar"}
       THEN archive' \in Subsets(FileNames, MaxMembers)
       ELSE archive' = archive
  /\ LET sfx == SuffixLower(rom_path)
         method == device_config.flash_method
         prepared(pkg) ==
           /\ package' = pkg
           /\ cmds' = cmds \o EfsBackup(options, device_config.manufacturer)
           /\ pc' = Dispatch(method)
           /\ IF Implemented(method)
                THEN /\ phases' = Append(phases, "PackagePrepared")
                     /\ UNCHANGED <<result, reason>>
                ELSE /\ phases' = phases \o <<"PackagePrepared", "Failed">>
                     /\ result' = "False"
                     /\ reason' = "not implemented yet"
         raises ==
           \* extractall raises (BadZipFile, OSError) after writing some of
           \* the members: nothing catches it
           /\ \E written \in SUBSET archive' :
                extract_dir' = extract_dir \cup written
           /\ pc' = "raised"
           /\ UNCHANGED <<package, cmds, result, reason, phases>>
         \* extract_dir.mkdir(exist_ok=True)
         mkdir == dir_exists' = TRUE /\ made_dir' = TRUE
     IN
     IF ~rom_exists
       THEN /\ ReturnFalse("ROM file not found")
            /\ UNCHANGED <<package, cmds, extract_dir, dirstate>>
     ELSE IF sfx = ".zip"
       THEN /\ mkdir
            /\ \/ raises
               \/ /\ extract_dir' = extract_dir \cup archive'
                  /\ \E pkg \in ZipPackages(extract_dir') : prepared(pkg)
     ELSE IF sfx = ".img"
       THEN /\ prepared(ImgPackage(rom_path))
            /\ UNCHANGED <<extract_dir, dirstate>>
     ELSE IF sfx = ".tar"
       THEN /\ mkdir
            /\ \/ raises
               \/ /\ extract_dir' = extract_dir \cup archive'
                  /\ prepared(EmptyPackage)
     ELSE /\ ReturnFalse("Unsupported ROM file format")
          /\ UNCHANGED <<package, cmds, extract_dir, dirstate>>
  /\ registry' = DevicesDbKept(registry)
  /\ UNCHANGED <<repeated,
                 aux, tool, device_codename, rom_path, rom_exists, devLocked,
                 flash_commands, idx, echoed>>

\* ------------------------------------------------------------------------
\* flash_fastboot
\* ------------------------------------------------------------------------

\* One step of a plan: the partition written and the image written to it.
Step(partition, img) == [part |-> partition, img |-> img]

\* The slot-suffixed partition names the A/B branch spells out.
SlotA(r) ==
  CASE r = "boot" -> "boot_a" [] r = "system" -> "system_a"
    [] OTHER -> "vendor_a"
SlotB(r) ==
  CASE r = "boot" -> "boot_b" [] r = "system" -> "system_b"
    [] OTHER -> "vendor_b"

\* An A/B branch that writes slot A only.
ABCommandsSlotA(r, img) == <<[part |-> SlotA(r), img |-> img]>>

\* flash_commands.extend([... r_a ..., ... r_b ...]) of the A/B branch
ABCommands(r, img) == <<Step(SlotA(r), img), Step(SlotB(r), img)>>

\* A non-A/B branch that writes a partition only when adb was found.
SingleCommandIfAdb(r, img) == IF adb_path THEN <<Step(r, img)>> ELSE <<>>

\* flash_commands.append([... r ...]) of the non-A/B branch
SingleCommand(r, img) == <<Step(r, img)>>

\* The roles each branch tests, in the order of its if statements.
ABRoles == <<"boot", "system", "vendor">>
NonABRoles == <<"boot", "recovery", "system", "vendor", "userdata">>

RECURSIVE FlashSteps(_, _, _)
FlashSteps(pkg, roles, ab) ==
  IF roles = <<>> THEN <<>>
  ELSE LET r == Head(roles)
           here == IF pkg[r] = None THEN <<>>
                   ELSE IF ab THEN ABCommands(r, pkg[r])
                   ELSE SingleCommand(r, pkg[r])
       IN here \o FlashSteps(pkg, Tail(roles), ab)

\* flash_commands as lines 344-374 build it
FastbootCommands(config, pkg) ==
  IF config.supports_ab THEN FlashSteps(pkg, ABRoles, TRUE)
                        ELSE FlashSteps(pkg, NonABRoles, FALSE)

\* What "fastboot getvar unlocked" can print for the attached device.
UnlockedOutputs == IF devLocked THEN {"", "unlocked: no"}
                                ELSE {"", "unlocked: yes"}

\* line 339: the run stops for a locked bootloader
LockedStops(stdout, config) ==
  stdout # "unlocked: yes" /\ config.requires_unlock

\* The orchestrator states after the loop (or the composite command) starts.
EnterExecuting(ph) ==
  IF ph[Len(ph)] = "PlanBuilt" THEN Append(ph, "Executing") ELSE ph

\* lines 337-375: the unlock query, then the plan
FlashFastboot ==
  /\ pc = "flash_fastboot"
  /\ \E beh \in Behaviours :
       \E stdout \in Stdouts(beh, UnlockedOutputs) :
         LET cmd == Command("fastboot", "getvar unlocked", <<>>, NoTimeout)
             res == run_command(beh, NoTimeout)
         IN
         IF Blocks(beh, NoTimeout)
           THEN /\ pc' = "blocked"
                /\ cmds' = Append(cmds, NeverReturned(cmd))
                /\ UNCHANGED <<flash_commands, result, reason, phases>>
         ELSE IF LockedStops(stdout, device_config)
           THEN /\ ReturnFalse("Bootloader is locked")
                /\ cmds' = Append(cmds, RanWith(cmd, res, stdout))
                /\ UNCHANGED flash_commands
         ELSE /\ flash_commands' = FastbootCommands(device_config, package)
              /\ pc' = IF flash_commands' = <<>> THEN "fb_reboot" ELSE "fb_loop"
              /\ cmds' = Append(cmds, RanWith(cmd, res, stdout))
              /\ phases' = Append(phases, "PlanBuilt")
              /\ UNCHANGED <<result, reason>>
  /\ registry' = DevicesDbKept(registry)
  /\ UNCHANGED <<repeated,
                 aux, dirstate, tool, input, extract_dir, devLocked, package,
                 idx, echoed>>

\* The loop going on whatever the command returned.
StepSucceededAlways(ret) == ret = ret

\* line 379: the loop goes on after a command that returned ret
StepSucceeded(ret) == ret = 0

\* The loop running the command it has just run once more.
NextCommandAgain(i) == i

\* the for loop takes the next command
NextCommand(i) == i + 1

\* lines 377-383: one turn of the for loop
FastbootFlashStep ==
  /\ pc = "fb_loop"
  /\ idx <= Len(flash_commands)
  /\ \E beh \in Behaviours :
       LET timeout == Timeout(FASTBOOT_FLASH_TIMEOUT)
           cmd == Command("fastboot", "flash", <<flash_commands[idx]>>, timeout)
           res == run_command(beh, timeout)
       IN
       /\ cmds' = Append(cmds, Ran(cmd, res))
       /\ IF StepSucceeded(res.ret)
            THEN /\ idx' = NextCommand(idx)
                 /\ pc' = IF idx' > Len(flash_commands) THEN "fb_reboot"
                                                       ELSE "fb_loop"
                 /\ phases' = EnterExecuting(phases)
                 /\ UNCHANGED <<result, reason>>
            ELSE /\ ReturnFalseFrom(EnterExecuting(phases),
                                    "Flash command failed")
                 /\ UNCHANGED idx
  /\ registry' = DevicesDbKept(registry)
  /\ UNCHANGED <<repeated,
                 aux, dirstate, tool, input, extract_dir, devLocked, package,
                 flash_commands, echoed>>

\* return True of a flash method, and lines 476-483 of flash_device
ReturnTrue(ph) ==
  /\ pc' = "done"
  /\ result' = "True"
  /\ phases' = Append(ph, "Succeeded")
  /\ UNCHANGED reason

\* A reboot whose failure fails the run.
RebootChecked(ph, ret) ==
  IF ret = 0 THEN ReturnTrue(ph) ELSE ReturnFalseFrom(ph, "Flash failed!")

\* line 387: what _run_command returns for the reboot is dropped, and
\* line 389 returns True
AfterReboot(ph, ret) == ReturnTrue(ph)

\* lines 385-389: the reboot, whose result is not looked at
FastbootReboot ==
  /\ pc = "fb_reboot"
  /\ \E beh \in Behaviours :
       LET cmd == Command("fastboot", "reboot", <<>>, NoTimeout)
           res == run_command(beh, NoTimeout)
       IN
       IF Blocks(beh, NoTimeout)
         THEN /\ pc' = "blocked"
              /\ cmds' = Append(cmds, NeverReturned(cmd))
              /\ phases' = EnterExecuting(phases)
              /\ UNCHANGED <<result, reason>>
         ELSE /\ cmds' = Append(cmds, Ran(cmd, res))
              /\ AfterReboot(EnterExecuting(phases), res.ret)
  /\ registry' = DevicesDbKept(registry)
  /\ UNCHANGED <<repeated,
                 aux, dirstate, tool, input, extract_dir, devLocked, package,
                 flash_commands, idx, echoed>>

\* ------------------------------------------------------------------------
\* flash_heimdall
\* ------------------------------------------------------------------------

\* str.upper() of a partition name of the registry
Upper(partition) ==
  CASE partition = "boot_a" -> "BOOT_A" [] partition = "boot_b" -> "BOOT_B"
    [] partition = "system_a" -> "SYSTEM_A"
    [] partition = "system_b" -> "SYSTEM_B"
    [] partition = "vendor_a" -> "VENDOR_A"
    [] partition = "vendor_b" -> "VENDOR_B"
    [] partition = "system" -> "SYSTEM"
    [] OTHER -> partition

\* lines 402-411: the package field the if/elif chain reads for a partition
HeimdallImage(partition, pkg) ==
  CASE Upper(partition) = "BOOT" -> pkg["boot"]
    [] Upper(partition) = "RECOVERY" -> pkg["recovery"]
    [] Upper(partition) = "SYSTEM" -> pkg["system"]
    [] Upper(partition) = "USERDATA" -> pkg["userdata"]
    [] Upper(partition) = "CACHE" -> pkg["cache"]
    [] OTHER -> None

\* line 413: the partition is added to the command
HeimdallAdds(img_path) == img_path # None /\ Exists(img_path)

\* A command that names the partitions last to first.
RECURSIVE HeimdallArgsReversed(_, _)
HeimdallArgsReversed(partitions, pkg) ==
  IF partitions = <<>> THEN <<>>
  ELSE LET img_path == HeimdallImage(Head(partitions), pkg)
           here == IF HeimdallAdds(img_path)
                     THEN <<Step(Upper(Head(partitions)), img_path)>>
                     ELSE <<>>
       IN HeimdallArgsReversed(Tail(partitions), pkg) \o here

RECURSIVE HeimdallArgs(_, _)
HeimdallArgs(partitions, pkg) ==
  IF partitions = <<>> THEN <<>>
  ELSE LET img_path == HeimdallImage(Head(partitions), pkg)
           here == IF HeimdallAdds(img_path)
                     THEN <<Step(Upper(Head(partitions)), img_path)>>
                     ELSE <<>>
       IN here \o HeimdallArgs(Tail(partitions), pkg)

\* lines 395-417: the composite command is built
FlashHeimdallBuild ==
  /\ pc = "flash_heimdall"
  /\ flash_commands' = HeimdallArgs(device_config.partitions, package)
  /\ pc' = "hd_run"
  /\ phases' = Append(phases, "PlanBuilt")
  /\ registry' = DevicesDbKept(registry)
  /\ UNCHANGED <<repeated,
                 aux, dirstate, tool, input, extract_dir, devLocked, package,
                 idx, cmds,
                 echoed, result, reason>>

\* lines 419-426: the composite command is run
FlashHeimdallRun ==
  /\ pc = "hd_run"
  /\ \E beh \in Behaviours :
       LET timeout == Timeout(HEIMDALL_FLASH_TIMEOUT)
           cmd == Command("heimdall", "flash", flash_commands, timeout)
           res == run_command(beh, timeout)
       IN
       /\ cmds' = Append(cmds, Ran(cmd, res))
       /\ IF StepSucceeded(res.ret)
            THEN ReturnTrue(EnterExecuting(phases))
            ELSE ReturnFalseFrom(EnterExecuting(phases),
                                 "Heimdall flash failed")
  /\ registry' = DevicesDbKept(registry)
  /\ UNCHANGED <<repeated,
                 aux, dirstate, tool, input, extract_dir, devLocked, package,
                 flash_commands, idx, echoed>>

\* ------------------------------------------------------------------------
\* main and detect_device
\* ------------------------------------------------------------------------

\* args.device when --device is not given
NotGiven == ""

\* What is left alone by the steps of main before flash_device is called.
flashstate == <<extract_dir, devLocked, package, flash_commands, idx, cmds,
                echoed, result, dir_exists, made_dir>>

\* sys.exit(1) of main after logger.error(msg)
ExitWithError(msg) ==
  /\ pc' = "exited"
  /\ exit_code' = <<1>>
  /\ reason' = msg
  /\ phases' = Append(phases, "Failed")

\* lines 519-527: the ROM file is tested, then the device is the one given
\* or the one to detect
Main ==
  /\ pc = "main"
  /\ IF ~Exists(rom_path)
       THEN ExitWithError("ROM file not found")
     ELSE IF device_codename # NotGiven
       THEN /\ pc' = "flash_device"
            /\ UNCHANGED <<exit_code, reason, phases>>
     ELSE /\ pc' = "detect_device"
          /\ UNCHANGED <<exit_code, reason, phases>>
  /\ registry' = DevicesDbKept(registry)
  /\ UNCHANGED <<repeated, tool, input, flashstate, fixed, probes>>

\* What 'adb devices' prints: its header, then one line for each device.
AdbListings ==
  {"List of devices attached\n",
   "List of devices attached\nserial\tdevice\n"}

\* 'device' in stdout, for the outputs of the model
HasDeviceWord(stdout) == stdout \in AdbListings

\* What 'adb shell getprop ro.product.device' prints.
GetpropOutputs == {"j5nlte\n", "herolte\n"}

\* What 'fastboot getvar product' prints.
GetvarOutputs == {"", "product: sailfish\n", "product: herolte\n"}

\* A parse that gives the product to the first call of detect_device only.
ProductInFirstCall(stdout) ==
  IF first = <<>> /\ stdout = "product: sailfish\n" THEN "sailfish"
                                                    ELSE NotGiven

\* lines 233-237: the codename of the first 'product:' line that is in the
\* registry, None when there is none
ProductIn(stdout) ==
  LET name == CASE stdout = "product: sailfish\n" -> "sailfish"
                [] stdout = "product: herolte\n" -> "herolte"
                [] OTHER -> NotGiven
  IN IF name \in DOMAIN registry THEN name ELSE NotGiven

\* The commands of detect_device and what each can print.
DetectCommands == {"adb devices", "getprop", "fastboot devices",
                   "getvar product"}
DetectOutputs(c) ==
  CASE c = "adb devices" -> AdbListings
    [] c = "getprop" -> GetpropOutputs
    [] c = "fastboot devices" -> DeviceListings(FASTBOOT)
    [] OTHER -> GetvarOutputs

\* What the program of a command does and prints.
Responses(outs) ==
  {r \in [beh : Behaviours, stdout : outs \cup {""}] :
     r.stdout \in Stdouts(r.beh, outs)}

\* The device environment of which nothing is known: every command can be
\* answered in every way, each time it is run.
AnyEnvironment == [c \in DetectCommands |-> Responses(DetectOutputs(c))]

\* The device environments that do not change: every command is answered
\* in one way, each time it is run.
FixedEnvironments ==
  {[c \in DetectCommands |->
      {CASE c = "adb devices" -> a [] c = "getprop" -> g
         [] c = "fastboot devices" -> f [] OTHER -> v}] :
     a \in Responses(AdbListings), g \in Responses(GetpropOutputs),
     f \in Responses(DeviceListings(FASTBOOT)),
     v \in Responses(GetvarOutputs)}

\* How a command of detect_device can be answered: as the environment of
\* the two calls fixes it, and in every way where no environment is fixed.
Answers(c) ==
  IF caller = "detect_device" THEN detect_env[c] ELSE AnyEnvironment[c]

\* What a step of detect_device leaves alone while the call goes on.
callstate == <<device_codename, exit_code, reason, phases, first, second>>

\* detect_device returns codename (None is NotGiven): to main, lines
\* 528-531, or to a caller that calls it a first and a second time.
Detected(codename) ==
  IF caller = "main"
    THEN /\ IF codename = NotGiven
              THEN /\ ExitWithError("Could not detect device")
                   /\ UNCHANGED device_codename
              ELSE /\ pc' = "flash_device"
                   /\ device_codename' = codename
                   /\ UNCHANGED <<exit_code, reason, phases>>
         /\ UNCHANGED <<first, second>>
    ELSE /\ IF first = <<>>
              THEN /\ first' = <<codename>>
                   /\ pc' = "detect_device"
                   /\ UNCHANGED second
              ELSE /\ second' = <<codename>>
                   /\ pc' = "detected_twice"
                   /\ UNCHANGED first
         /\ UNCHANGED <<device_codename, exit_code, reason, phases>>

\* detect_device is left waiting on a command that does not return.
DetectBlocked(cmd) ==
  /\ pc' = "blocked"
  /\ probes' = Append(probes, NeverReturned(cmd))
  /\ UNCHANGED callstate

\* lines 216-218: 'adb devices' when adb was found
DetectAdbDevices ==
  /\ pc = "detect_device"
  /\ IF adb_path
       THEN
         \E r \in Answers("adb devices") :
           LET beh == r.beh
               stdout == r.stdout
               cmd == Command("adb", "devices", <<>>, NoTimeout)
                 res == run_command(beh, NoTimeout)
             IN
             IF Blocks(beh, NoTimeout)
               THEN DetectBlocked(cmd)
               ELSE /\ probes' = Append(probes, RanWith(cmd, res, stdout))
                    /\ pc' = IF res.ret = 0 /\ HasDeviceWord(stdout)
                               THEN "detect_getprop" ELSE "detect_fastboot"
                    /\ UNCHANGED callstate
       ELSE /\ pc' = "detect_fastboot"
            /\ UNCHANGED <<callstate, probes>>
  /\ registry' = DevicesDbKept(registry)
  /\ UNCHANGED <<listing, tool, rom_path, rom_exists, archive, flashstate,
                 fixed>>

\* An adb strategy that takes whatever codename the device gives.
AdbYieldsUnchecked(ret, stdout) == ret = 0 /\ Strip(stdout) # NotGiven

\* An adb strategy whose answer is never taken.
AdbYieldsNothing(ret, stdout) == FALSE

\* lines 221-225: the adb strategy has found the device
AdbYields(ret, stdout) == ret = 0 /\ Strip(stdout) \in DOMAIN registry

\* lines 220-225: the codename the device gives over adb
DetectGetprop ==
  /\ pc = "detect_getprop"
  /\ \E r \in Answers("getprop") :
       LET beh == r.beh
           stdout == r.stdout
           cmd == Command("adb", "shell getprop ro.product.device", <<>>,
                            NoTimeout)
             res == run_command(beh, NoTimeout)
         IN
         IF Blocks(beh, NoTimeout)
           THEN DetectBlocked(cmd)
           ELSE /\ probes' = Append(probes, RanWith(cmd, res, stdout))
                /\ IF AdbYields(res.ret, stdout)
                     THEN Detected(Strip(stdout))
                     ELSE /\ pc' = "detect_fastboot"
                          /\ UNCHANGED callstate
  /\ registry' = DevicesDbKept(registry)
  /\ UNCHANGED <<listing, tool, rom_path, rom_exists, archive, flashstate,
                 fixed>>

\* lines 228-230: 'fastboot devices' when fastboot was found
DetectFastbootDevices ==
  /\ pc = "detect_fastboot"
  /\ IF fastboot_path
       THEN
         \E r \in Answers("fastboot devices") :
           LET beh == r.beh
               stdout == r.stdout
               cmd == Command("fastboot", "devices", <<>>, NoTimeout)
                 res == run_command(beh, NoTimeout)
             IN
             IF Blocks(beh, NoTimeout)
               THEN DetectBlocked(cmd)
               ELSE /\ probes' = Append(probes, RanWith(cmd, res, stdout))
                    /\ IF res.ret = 0 /\ Strip(stdout) # ""
                         THEN /\ pc' = "detect_getvar"
                              /\ UNCHANGED callstate
                         ELSE Detected(NotGiven)
       ELSE /\ Detected(NotGiven)
            /\ UNCHANGED probes
  /\ registry' = DevicesDbKept(registry)
  /\ UNCHANGED <<listing, tool, rom_path, rom_exists, archive, flashstate,
                 fixed>>

\* lines 231-241: the product the bootloader gives over fastboot
DetectGetvar ==
  /\ pc = "detect_getvar"
  /\ \E r \in Answers("getvar product") :
       LET beh == r.beh
           stdout == r.stdout
           cmd == Command("fastboot", "getvar product", <<>>, NoTimeout)
             res == run_command(beh, NoTimeout)
         IN
         IF Blocks(beh, NoTimeout)
           THEN DetectBlocked(cmd)
           ELSE /\ probes' = Append(probes, RanWith(cmd, res, stdout))
                /\ IF res.ret = 0 THEN Detected(ProductIn(stdout))
                                  ELSE Detected(NotGiven)
  /\ registry' = DevicesDbKept(registry)
  /\ UNCHANGED <<listing, tool, rom_path, rom_exists, archive, flashstate,
                 fixed>>

\* An exit status that does not look at the verdict.
ExitStatusOfCompletion(success) == 0

\* line 541: sys.exit(0 if success else 1)
ExitStatus(success) == IF success THEN 0 ELSE 1

\* line 541, sys.exit(0 if success else 1); an exception that nothing
\* catches ends the interpreter with status 1
MainExit ==
  /\ pc \in {"done", "raised"}
  /\ pc' = "exited"
  /\ exit_code' = IF pc = "done" THEN <<ExitStatus(result = "True")>>
                                  ELSE <<1>>
  /\ registry' = DevicesDbKept(registry)
  /\ UNCHANGED <<repeated, tool, input, flashstate, fixed, probes, reason,
                 phases>>

\* ------------------------------------------------------------------------
\* The specifications
\* ------------------------------------------------------------------------

Next ==
  \/ FlashDeviceLookup
  \/ CheckPrerequisites
  \/ PrepareFlashPackage
  \/ FlashFastboot
  \/ FastbootFlashStep
  \/ FastbootReboot
  \/ FlashHeimdallBuild
  \/ FlashHeimdallRun

Spec == Init /\ [][Next]_vars

\* A call of flash_device for a profile of one of the other flash methods.
InitProfiles ==
  /\ InitCommon
  /\ detect_env = <<>>
  /\ caller = "flash_device"
  /\ build_config = NoBuild /\ build_root = "missing"
  /\ options = DefaultOptions
  /\ registry = devices_db_extended
  /\ odin3_exe \in BOOLEAN
  /\ device_codename \in OtherMethods
  /\ pc = "flash_device"

\* Such a call gets no further than the package preparation.
NextProfiles ==
  \/ FlashDeviceLookup
  \/ CheckPrerequisites
  \/ PrepareFlashPackage

SpecProfiles == InitProfiles /\ [][NextProfiles]_vars

\* The command line: the ROM file, and --device or nothing.
\* The ROM has not been unpacked before: what an earlier run leaves in the
\* extraction directory is the subject of the runs of flash_device alone.
\* --wipe-data and --no-backup are not given: the options are the subject
\* of the two calls of flash_device with different options.
InitMain ==
  /\ InitCommon
  /\ extract_dir = {}
  /\ detect_env = <<>>
  /\ caller = "main"
  /\ build_config = NoBuild /\ build_root = "missing"
  /\ options = DefaultOptions
  /\ registry = devices_db
  /\ odin3_exe = FALSE
  /\ device_codename \in Codenames \cup {UnknownCodename, NotGiven}
  /\ pc = "main"

NextMain ==
  \/ Main
  \/ DetectAdbDevices
  \/ DetectGetprop
  \/ DetectFastbootDevices
  \/ DetectGetvar
  \/ Next
  \/ MainExit

SpecMain == InitMain /\ [][NextMain]_vars

\* ------------------------------------------------------------------------
\* What a run has done, read from its command log
\* ------------------------------------------------------------------------

IsWrite(c) == c.cmd.op = "flash"
IsFastbootWrite(c) == c.cmd.tool = "fastboot" /\ c.cmd.op = "flash"

\* The partition-write commands of the run, in the order they were run.
Writes == SelectSeq(cmds, IsWrite)
FastbootWrites == SelectSeq(cmds, IsFastbootWrite)

Reached(phase) == \E i \in 1..Len(phases) : phases[i] = phase
Last(seq) == seq[Len(seq)]

Registered == device_codename \in DOMAIN registry

\* C1: fail-fast.  The fastboot write commands of a run are the steps of
\* the plan from the first on, in plan order; every write before the last
\* one succeeded; and a write that failed is the last command of the run,
\* which has returned False: after step k fails, steps k+1..n (and the
\* reboot) are not run, and the log holds exactly k writes.
C1_FailFast ==
  /\ \A k \in 1..Len(FastbootWrites) :
       /\ k <= Len(flash_commands)
       /\ FastbootWrites[k].cmd.args = <<flash_commands[k]>>
       /\ k < Len(FastbootWrites) => FastbootWrites[k].ret = 0
  /\ \A i \in 1..Len(cmds) :
       IsWrite(cmds[i]) /\ cmds[i].ret # 0 =>
         /\ i = Len(cmds)
         /\ pc = "done"
         /\ result = "False"

\* A run whose plan has at least three steps and whose second step failed.
C1_Witness ==
  /\ Len(flash_commands) >= 3
  /\ Len(FastbootWrites) = 2
  /\ FastbootWrites[1].ret = 0
  /\ FastbootWrites[2].ret # 0
  /\ pc = "done"

\* The logical partition (image role) a partition name stands for: the
\* name without its slot suffix, in lower case.
LogicalOf(partition) ==
  CASE partition \in {"boot", "BOOT", "boot_a", "boot_b"} -> "boot"
    [] partition \in {"recovery", "RECOVERY"} -> "recovery"
    [] partition \in {"system", "SYSTEM", "system_a", "system_b"} -> "system"
    [] partition \in {"vendor", "VENDOR", "vendor_a", "vendor_b"} -> "vendor"
    [] partition \in {"userdata", "USERDATA"} -> "userdata"
    [] OTHER -> "cache"

Suffixed(partition) ==
  partition \in {"boot_a", "boot_b", "system_a", "system_b",
                 "vendor_a", "vendor_b"}

\* The logical partitions a profile's partition table names.
TableRoles(config) ==
  {LogicalOf(config.partitions[i]) : i \in 1..Len(config.partitions)}

\* The logical partitions that are in the profile's table and that the
\* package binds an image for.
Join == {r \in TableRoles(device_config) : package[r] # None}

\* The steps of the plan for logical partition r.
StepsOf(r) ==
  {k \in 1..Len(flash_commands) : LogicalOf(flash_commands[k].part) = r}

\* C2: empty-plan rejection.  Once the plan is built for a package that
\* binds no image the profile's partition table names, no flash and no
\* reboot command is run, and the run, when it ends, has returned False.
C2_EmptyPlanRejected ==
  Reached("PlanBuilt") /\ Join = {} =>
    /\ \A i \in 1..Len(cmds) : cmds[i].cmd.op \notin {"flash", "reboot"}
    /\ pc = "done" => result = "False"

\* C3: bootloader-lock guard.  For a profile with requires_unlock, of
\* either protocol, and a device whose bootloader is locked, no
\* partition-write command is run and the run does not return True.
C3_LockGuard ==
  Registered /\ device_config.requires_unlock /\ devLocked =>
    /\ Writes = <<>>
    /\ result # "True"

\* The plan the flash method of the profile builds from the package.
BuiltPlan ==
  IF device_config.flash_method = FASTBOOT
    THEN FastbootCommands(device_config, package)
    ELSE HeimdallArgs(device_config.partitions, package)

\* C4: the plan is validated before the first destructive operation.  Once
\* a partition-write command has been invoked, the plan is the complete
\* plan built from the package, the image of every step of the plan exists
\* on disk, and every step passed to a backend is a step of the plan whose
\* image exists.
C4_PlanValidated ==
  Writes # <<>> =>
    /\ Reached("PlanBuilt")
    /\ flash_commands = BuiltPlan
    /\ \A k \in 1..Len(flash_commands) : Exists(flash_commands[k].img)
    /\ \A i \in 1..Len(Writes) :
         \A a \in 1..Len(Writes[i].cmd.args) :
           /\ \E k \in 1..Len(flash_commands) :
                flash_commands[k] = Writes[i].cmd.args[a]
           /\ Exists(Writes[i].cmd.args[a].img)

\* The first write of a plan of several steps, one of them an image that an
\* earlier extraction left in the directory.
C4_Witness ==
  /\ Len(Writes) = 1
  /\ Len(flash_commands) >= 2
  /\ \E k \in 1..Len(flash_commands) :
       /\ flash_commands[k].img.dir = "extracted"
       /\ flash_commands[k].img.name \notin archive

\* The orchestrator states in their order, and the errors of the
\* prerequisite check.
Order ==
  <<"Idle", "PrerequisitesChecked", "PackagePrepared", "PlanBuilt",
    "Executing">>
Terminal == {"Succeeded", "Failed"}
PrerequisiteErrors ==
  {"Missing required tools", "No device detected in fastboot mode",
   "No device detected in download mode", "Bootloader is locked"}

\* C5: orchestrator state order.  The states a run has passed through are
\* Idle, PrerequisitesChecked, PackagePrepared, PlanBuilt, Executing from
\* the first on, in that order, none skipped, closed by Succeeded or Failed
\* when the run has ended; a run ends only in Succeeded or Failed, and
\* Succeeded only after Executing; and a run that failed a prerequisite
\* (tooling, reachability, bootloader lock) went from Idle to Failed
\* without the work of a later state.
C5_StateOrder ==
  LET n == Len(phases)
      body == IF Last(phases) \in Terminal THEN SubSeq(phases, 1, n - 1)
                                           ELSE phases
  IN
  /\ Len(body) <= Len(Order)
  /\ body = SubSeq(Order, 1, Len(body))
  /\ Last(phases) = "Succeeded" => body = Order
  /\ pc = "done" <=> Last(phases) \in Terminal
  /\ pc # "raised"
  /\ reason \in PrerequisiteErrors =>
       /\ phases = <<"Idle", "Failed">>
       /\ archive = {}

\* Every step of the plan was executed and succeeded.
AllStepsSucceeded ==
  \A k \in 1..Len(flash_commands) :
    \E i \in 1..Len(Writes) :
      /\ Writes[i].ret = 0
      /\ \E a \in 1..Len(Writes[i].cmd.args) :
           Writes[i].cmd.args[a] = flash_commands[k]

\* C6: overall verdict.  A run that has ended returned True if and only if
\* its plan is not empty and every step of the plan was executed and
\* succeeded.
C6_Verdict ==
  pc = "done" =>
    (result = "True" <=> flash_commands # <<>> /\ AllStepsSucceeded)

\* C7: the plan is the join of profile and package.  Once the plan is
\* built, it has a step for a logical partition if and only if the
\* profile's partition table names the partition and the package binds an
\* image for it.
C7_PlanIsJoin ==
  Reached("PlanBuilt") =>
    \A r \in Roles : StepsOf(r) # {} <=> r \in Join

\* C8: A/B duplication.  Once the plan is built, for every logical
\* partition that the profile's table names and the package binds: an A/B
\* profile has exactly two steps for it, slot A then slot B, both with the
\* bound image; a non-A/B profile has exactly one step for it, with no slot
\* suffix and with the bound image.
C8_ABDuplication ==
  Reached("PlanBuilt") =>
    \A r \in Join :
      IF device_config.supports_ab
        THEN /\ Cardinality(StepsOf(r)) = 2
             /\ \E k \in StepsOf(r) :
                  /\ k + 1 \in StepsOf(r)
                  /\ flash_commands[k] = Step(SlotA(r), package[r])
                  /\ flash_commands[k + 1] = Step(SlotB(r), package[r])
        ELSE /\ Cardinality(StepsOf(r)) = 1
             /\ \A k \in StepsOf(r) :
                  /\ ~Suffixed(flash_commands[k].part)
                  /\ flash_commands[k].img = package[r]

\* An A/B plan for a package that binds boot and one more partition.
C8_Witness ==
  /\ Reached("PlanBuilt")
  /\ device_config.supports_ab
  /\ package["boot"] # None
  /\ Cardinality(Join) >= 2

\* C9: no automatic retry.  No step of the plan is named by more than one
\* partition-write command of the run, and a composite write is run at
\* most once, whether the command succeeded, failed or timed out.
C9_NoRetry ==
  /\ \A i, j \in 1..Len(Writes) :
       Writes[i].cmd = Writes[j].cmd => i = j
  /\ \A k \in 1..Len(flash_commands) :
       Cardinality({i \in 1..Len(Writes) :
                      \E a \in 1..Len(Writes[i].cmd.args) :
                        Writes[i].cmd.args[a] = flash_commands[k]}) <= 1

\* A run that ended after a write that succeeded and a write that did not.
C9_Witness ==
  /\ pc = "done"
  /\ Len(Writes) >= 2
  /\ Writes[1].ret = 0
  /\ Last(Writes).ret # 0
  /\ Last(Writes).stderr = "error"

\* The error logged for a write that failed.
WriteFailed(c) ==
  IF c.cmd.tool = "fastboot" THEN "Flash command failed"
                             ELSE "Heimdall flash failed"

\* C10: a timeout is a failure.  Every partition-write command is run with
\* its timeout (300 s for fastboot, 600 s for heimdall); a write that timed
\* out has a non-zero return code; and a write that timed out, like a write
\* that returned a non-zero status, is the last command of the run, which
\* has returned False with the error of a failed write.
C10_TimeoutIsFailure ==
  \A i \in 1..Len(cmds) :
    IsWrite(cmds[i]) =>
      /\ cmds[i].cmd.timeout =
           IF cmds[i].cmd.tool = "fastboot"
             THEN <<FASTBOOT_FLASH_TIMEOUT>>
             ELSE <<HEIMDALL_FLASH_TIMEOUT>>
      /\ cmds[i].stderr = "Command timed out" => cmds[i].ret # 0
      /\ cmds[i].stderr = "Command timed out" \/ cmds[i].ret # 0 =>
           /\ i = Len(cmds)
           /\ pc = "done"
           /\ result = "False"
           /\ reason = WriteFailed(cmds[i])
           /\ Last(phases) = "Failed"

\* A run whose first write succeeded and whose second write timed out, with
\* steps of the plan left.
C10_Witness ==
  /\ Len(Writes) = 2
  /\ Writes[1].ret = 0
  /\ Writes[2].stderr = "Command timed out"
  /\ Len(flash_commands) > 2

\* ------------------------------------------------------------------------
\* Resource and error-handling claims
\* ------------------------------------------------------------------------

\* C11: every external command is time-bounded.  Every command the run has
\* issued was started with a finite timeout, and the run is never left
\* waiting on a command that does not return.
C11_TimeBounded ==
  /\ \A i \in 1..Len(cmds) : cmds[i].cmd.timeout # NoTimeout
  /\ pc # "blocked"

\* C12: extraction directory cleanup.  When a run has ended, by returning
\* or by an exception leaving it, an extraction directory that the run
\* created (mkdir was called on it) is no longer on disk.
C12_ExtractionDirRemoved ==
  pc \in {"done", "raised"} /\ made_dir => ~dir_exists

\* C13: a report is always produced.  Reading what flash_device gives back
\* (its return value and the error it logged) as the report: every run that
\* has ended has a verdict, and a run whose verdict is failure has a failure
\* reason.
C13_ReportProduced ==
  pc \in {"done", "raised"} =>
    /\ result \in {"True", "False"}
    /\ result = "False" => reason # ""

IsReboot(c) == c.cmd.tool = "fastboot" /\ c.cmd.op = "reboot"

\* C14: best-effort reboot.  A reboot command is issued only after every
\* step of the plan has been run and has succeeded, so never after a failed
\* step; it is the last command of the run; and once it has returned,
\* whatever its return code, the run has returned True.
C14_BestEffortReboot ==
  \A i \in 1..Len(cmds) :
    IsReboot(cmds[i]) =>
      /\ Len(FastbootWrites) = Len(flash_commands)
      /\ \A j \in 1..(i - 1) : IsWrite(cmds[j]) => cmds[j].ret = 0
      /\ \A j \in 1..Len(cmds) : IsWrite(cmds[j]) => j < i
      /\ i = Len(cmds)
      /\ cmds[i].returned =>
           /\ pc = "done"
           /\ result = "True"
           /\ Last(phases) = "Succeeded"

\* A run that wrote two partitions and whose reboot command then failed.
C14_Witness ==
  /\ Len(FastbootWrites) = 2
  /\ IsReboot(Last(cmds))
  /\ Last(cmds).returned
  /\ Last(cmds).ret # 0
  /\ result = "True"

IsUnlockQuery(c) == c.cmd.tool = "fastboot" /\ c.cmd.op = "getvar unlocked"

\* C15: the unlock check belongs to the prerequisite phase.  For a profile
\* that requires an unlocked bootloader, a run that has passed the
\* prerequisite check has queried the unlock state, and a run that ended on
\* a locked bootloader has created no extraction directory and bound no
\* image.
C15_UnlockInPrerequisites ==
  /\ Registered /\ device_config.requires_unlock
       /\ Reached("PrerequisitesChecked")
       => \E i \in 1..Len(cmds) : IsUnlockQuery(cmds[i])
  /\ reason = "Bootloader is locked" =>
       ~made_dir /\ package = EmptyPackage

\* The transport binary of the profile's flash method was not found on the
\* host.
TransportMissing ==
  /\ Registered
  /\ \/ device_config.flash_method = FASTBOOT /\ ~fastboot_path
     \/ device_config.flash_method = HEIMDALL /\ ~heimdall_path

\* C18: missing tooling.  When the transport binary of the profile's flash
\* method is not on the host, a run that has gone through the prerequisite
\* check has returned False with the missing-tools error, has run no command
\* at all, has created no extraction directory and has bound no image.
C18_MissingTooling ==
  TransportMissing /\ pc \notin {"flash_device", "check_prerequisites"} =>
    /\ pc = "done"
    /\ result = "False"
    /\ reason = "Missing required tools"
    /\ Last(phases) = "Failed"
    /\ cmds = <<>>
    /\ ~made_dir
    /\ package = EmptyPackage
    /\ flash_commands = <<>>

\* A run for a fastboot device on a host with adb and without fastboot,
\* after its prerequisite check.
C18_Witness ==
  /\ device_codename = "sailfish"
  /\ adb_path /\ ~fastboot_path
  /\ rom_exists
  /\ pc = "done"
  /\ reason = "Missing required tools"

\* The enumeration command of the prerequisite check.
IsEnumeration(c) ==
  \/ c.cmd.tool = "fastboot" /\ c.cmd.op = "devices"
  \/ c.cmd.tool = "heimdall" /\ c.cmd.op = "detect"

\* An enumeration that returned and found no device: it failed, or, for
\* fastboot, it listed nothing.
FoundNoDevice(c) ==
  /\ IsEnumeration(c)
  /\ c.returned
  /\ \/ c.ret # 0
     \/ c.cmd.tool = "fastboot" /\ c.stdout \in {"", "\n"}

\* C19: device unreachable.  When the enumeration of the prerequisite check
\* found no device, it is the only command of the run, and the run has
\* returned False with the no-device error of the protocol, has created no
\* extraction directory, has bound no image and has built no plan.
C19_DeviceUnreachable ==
  \A i \in 1..Len(cmds) :
    FoundNoDevice(cmds[i]) =>
      /\ Len(cmds) = 1
      /\ pc = "done"
      /\ result = "False"
      /\ reason = IF cmds[i].cmd.tool = "fastboot"
                    THEN "No device detected in fastboot mode"
                    ELSE "No device detected in download mode"
      /\ Last(phases) = "Failed"
      /\ ~made_dir
      /\ package = EmptyPackage
      /\ flash_commands = <<>>

\* 'fastboot devices' exited 0 and printed an empty line.
C19_Witness ==
  /\ cmds # <<>>
  /\ cmds[1].cmd.tool = "fastboot"
  /\ cmds[1].ret = 0
  /\ cmds[1].stdout = "\n"
  /\ rom_exists
  /\ pc = "done"

\* prepare_flash_package has been called and has returned.
Decomposed ==
  /\ Reached("PrerequisitesChecked")
  /\ pc \notin {"prepare_flash_package", "raised"}

\* ROM paths by their extension, whatever its case.
RawImagePaths == {RomPath(".img"), RomPath(".IMG")}
ArchivePaths == {RomPath(".zip"), RomPath(".tar")}

\* The package of a raw image: the system image is the ROM file, every
\* other image is unbound.
SystemOnly(path) == [r \in Roles |-> IF r = "system" THEN path ELSE None]

\* C20 as stated: dispatch purely on the extension.  After the package
\* preparation of a path that is neither an archive nor a raw image, the run
\* has returned False with the unsupported-format error and no extraction
\* directory was created; after that of a raw image, the package binds the
\* ROM file as the system image and nothing else, and nothing was
\* extracted.
C20_DispatchOnExtension ==
  Decomposed =>
    /\ rom_path \notin RawImagePaths \cup ArchivePaths =>
         /\ pc = "done"
         /\ result = "False"
         /\ reason = "Unsupported ROM file format"
         /\ ~made_dir
         /\ package = EmptyPackage
    /\ rom_path \in RawImagePaths =>
         /\ package = SystemOnly(rom_path)
         /\ ~made_dir
         /\ archive = {}

\* C20, amended: the existence of the path is tested before its extension.
\* A path that does not exist fails with the not-found error whatever its
\* extension, with no extraction directory and no image bound; a path that
\* exists is dispatched on its extension as stated.
C20_DispatchOnExtensionOfExistingPath ==
  Decomposed =>
    /\ ~rom_exists =>
         /\ pc = "done"
         /\ result = "False"
         /\ reason = "ROM file not found"
         /\ ~made_dir
         /\ package = EmptyPackage
    /\ rom_exists /\ rom_path \notin RawImagePaths \cup ArchivePaths =>
         /\ pc = "done"
         /\ result = "False"
         /\ reason = "Unsupported ROM file format"
         /\ ~made_dir
         /\ package = EmptyPackage
    /\ rom_exists /\ rom_path \in RawImagePaths =>
         /\ package = SystemOnly(rom_path)
         /\ ~made_dir
         /\ archive = {}

\* A run for the raw image rom.IMG that has written the system partition.
C20_Witness ==
  /\ rom_path = RomPath(".IMG")
  /\ rom_exists
  /\ package = SystemOnly(rom_path)
  /\ Len(Writes) = 1
  /\ Writes[1].ret = 0

\* Nothing of the prerequisite check, the package preparation or the flash
\* has happened.
NothingDone ==
  /\ cmds = <<>>
  /\ ~made_dir
  /\ package = EmptyPackage
  /\ flash_commands = <<>>

\* C17: device resolution is terminal.  Of the runs of main that get to the
\* device resolution (the ROM file exists): a run whose --device codename is
\* not in the registry returns False from flash_device with the
\* unsupported-device error and exits with status 1; a run without --device
\* whose detection finds no registered device exits with status 1 and the
\* could-not-detect error; neither runs a prerequisite, extraction or flash
\* command, the only commands being those of the detection.
C17_ResolutionIsTerminal ==
  /\ rom_exists /\ device_codename \notin DOMAIN registry \cup {NotGiven}
       /\ pc \notin {"main", "flash_device"} =>
         /\ pc \in {"done", "exited"}
         /\ result = "False"
         /\ reason = "Unsupported device"
         /\ Last(phases) = "Failed"
         /\ pc = "exited" => exit_code = <<1>>
         /\ probes = <<>>
         /\ NothingDone
  /\ device_codename = NotGiven =>
       /\ NothingDone
       /\ result = "none"
       /\ \A i \in 1..Len(probes) :
            probes[i].cmd.op \in {"devices", "getvar product",
                                  "shell getprop ro.product.device"}
       /\ rom_exists /\ pc = "exited" =>
            /\ reason = "Could not detect device"
            /\ Last(phases) = "Failed"
            /\ exit_code = <<1>>

\* A run without --device: the device on adb has a codename that is not
\* registered, and fastboot lists no device.
C17_Witness ==
  /\ device_codename = NotGiven
  /\ pc = "exited"
  /\ Len(probes) = 3
  /\ probes[2].stdout = "herolte\n"
  /\ probes[3].cmd.tool = "fastboot"
  /\ probes[3].ret = 0
  /\ reason = "Could not detect device"

C21_ExtractionFailureReturned == pc # "raised"

\* ------------------------------------------------------------------------
\* The same archive decomposed twice
\* ------------------------------------------------------------------------

\* What a call of prepare_flash_package alone leaves as it is.
flashrun == <<tool, device_codename, rom_path, rom_exists, devLocked,
              flash_commands, idx, cmds, echoed, result, reason, phases,
              registry, aux>>

Range(seq) == {seq[i] : i \in 1..Len(seq)}
IndexOf(seq, x) == CHOOSE i \in 1..Len(seq) : seq[i] = x

\* The orders in which a file system can list a directory holding files.
Listings(files) ==
  {l \in [1..Cardinality(files) -> files] : Range(l) = files}

\* The entries of old are in new, in the order they have in old.
KeepsOrder(old, new) ==
  \A i, j \in 1..Len(old) :
    i < j => IndexOf(new, old[i]) < IndexOf(new, old[j])

\* An extraction that removes and creates again the members that are
\* already in the directory, so that they get a new place in its listing.
ExtractAllRecreating(l, members) == Listings(Range(l) \cup members)

\* zip_ref.extractall(extract_dir): a member whose file is in the directory
\* is written over, which leaves its directory entry where it is; the entry
\* of a new file goes where the file system puts it.
ExtractAll(l, members) ==
  {new \in Listings(Range(l) \cup members) : KeepsOrder(l, new)}

\* lines 299-311, the body of the for loop for one globbed file
BindOne(pkg, name) ==
  IF StemLower(name) \in Roles
    THEN [pkg EXCEPT ![StemLower(name)] = ExtractedPath(name)]
    ELSE pkg

\* lines 296-313: the loop over extract_dir.glob("*.img") in the order of
\* the directory listing; a later file replaces an earlier one of its role
RECURSIVE BindAll(_, _)
BindAll(pkg, names) ==
  IF names = <<>> THEN pkg
  ELSE BindAll(BindOne(pkg, Head(names)), Tail(names))

IsImg(name) == Suffix(name) = ".img"
ZipPackage(l) == BindAll(EmptyPackage, SelectSeq(l, IsImg))

\* A zip archive that exists, and the extraction directory of its stem as
\* earlier runs have left it.
InitDecompose ==
  /\ detect_env = <<>>
  /\ caller = "prepare_flash_package"
  /\ build_config = NoBuild /\ build_root = "missing"
  /\ options = DefaultOptions
  /\ adb_path = TRUE /\ fastboot_path = TRUE /\ heimdall_path = TRUE
  /\ device_codename = "gsi"
  /\ registry = devices_db
  /\ odin3_exe = FALSE
  /\ rom_path = RomPath(".zip")
  /\ rom_exists = TRUE
  /\ archive \in Subsets(FileNames, MaxMembers)
  /\ extract_dir \in Subsets(StaleNames, MaxStale)
  /\ listing \in Listings(extract_dir)
  /\ dir_exists = (extract_dir # {})
  /\ made_dir = FALSE
  /\ devLocked = FALSE
  /\ package = EmptyPackage
  /\ flash_commands = <<>>
  /\ idx = 1
  /\ cmds = <<>>
  /\ echoed = 0
  /\ result = "none"
  /\ reason = ""
  /\ phases = <<"Idle">>
  /\ probes = <<>>
  /\ exit_code = <<>>
  /\ first = <<>>
  /\ second = <<>>
  /\ pc = "decompose_first"

\* lines 286-313: prepare_flash_package for the zip archive, called a first
\* and a second time
DecomposeZip ==
  /\ pc \in {"decompose_first", "decompose_second"}
  /\ \E new \in ExtractAll(listing, archive) :
       /\ listing' = new
       /\ extract_dir' = Range(new)
       /\ package' = ZipPackage(new)
  /\ dir_exists' = TRUE
  /\ made_dir' = TRUE
  /\ IF pc = "decompose_first"
       THEN /\ first' = package'
            /\ pc' = "decompose_second"
            /\ UNCHANGED second
       ELSE /\ second' = package'
            /\ pc' = "decomposed_twice"
            /\ UNCHANGED first
  /\ UNCHANGED <<flashrun, archive>>

SpecDecompose == InitDecompose /\ [][DecomposeZip]_vars

\* C22: decomposition idempotence.  The second decomposition of a zip
\* archive binds every role to the file the first one bound it to; both
\* packages are among those the glob of the extraction directory can give.
C22_DecompositionIdempotent ==
  /\ pc = "decompose_second" => first \in ZipPackages(extract_dir)
  /\ pc = "decomposed_twice" =>
       /\ second = first
       /\ second \in ZipPackages(extract_dir)

\* An archive with boot.img and BOOT.img, decomposed twice into a directory
\* that held a recovery image of an earlier extraction.
C22_Witness ==
  /\ pc = "decomposed_twice"
  /\ archive = {"boot.img", "BOOT.img"}
  /\ extract_dir = {"boot.img", "BOOT.img", "recovery.img"}
  /\ second["boot"] = ExtractedPath("BOOT.img")
  /\ second["recovery"] # None

\* C23: a tar input surfaces as an empty plan.  For a .tar ROM file that was
\* decomposed, the package binds no image and the plan has no step, and the
\* run then issues no write and no reboot command and, once it has ended,
\* has returned False.
C23_TarIsEmptyPlan ==
  rom_path = RomPath(".tar") /\ Reached("PackagePrepared") =>
    /\ package = EmptyPackage
    /\ flash_commands = <<>>
    /\ \A i \in 1..Len(cmds) : ~IsWrite(cmds[i]) /\ ~IsReboot(cmds[i])
    /\ pc = "done" => result = "False"

\* ------------------------------------------------------------------------
\* The plan built twice, by two tool objects
\* ------------------------------------------------------------------------

\* What building a plan leaves as it is.
planframe == <<device_codename, rom_path, rom_exists, archive, extract_dir,
               devLocked, package, idx, cmds, echoed, result, reason, phases,
               registry, aux, dirstate, listing>>

\* A registered profile and a package that prepare_flash_package returned
\* for a zip archive, whose images are in the extraction directory.
InitPlan ==
  /\ detect_env = <<>>
  /\ caller = "flash_method"
  /\ build_config = NoBuild /\ build_root = "missing"
  /\ options = DefaultOptions
  /\ adb_path \in BOOLEAN
  /\ fastboot_path \in BOOLEAN
  /\ heimdall_path \in BOOLEAN
  /\ device_codename \in Codenames
  /\ registry = devices_db
  /\ odin3_exe = FALSE
  /\ rom_path = RomPath(".zip")
  /\ rom_exists = TRUE
  /\ archive \in Subsets(FileNames, MaxMembers)
  /\ extract_dir = archive
  /\ package \in ZipPackages(extract_dir)
  /\ listing = <<>>
  /\ dir_exists = TRUE
  /\ made_dir = TRUE
  /\ devLocked = FALSE
  /\ flash_commands = <<>>
  /\ idx = 1
  /\ cmds = <<>>
  /\ echoed = 0
  /\ result = "none"
  /\ reason = ""
  /\ phases = <<"Idle">>
  /\ probes = <<>>
  /\ exit_code = <<>>
  /\ first = <<>>
  /\ second = <<>>
  /\ pc = "plan_first"

\* The plan as lines 343-375 of flash_fastboot or lines 395-414 of
\* flash_heimdall build it, with the tool paths of the object that built it.
PlanOfTool ==
  [plan |-> IF device_config.flash_method = FASTBOOT
              THEN FastbootCommands(device_config, package)
              ELSE HeimdallArgs(device_config.partitions, package),
   tool |-> tool]

BuildPlan ==
  /\ pc \in {"plan_first", "plan_second"}
  /\ flash_commands' = PlanOfTool.plan
  /\ IF pc = "plan_first"
       THEN /\ first' = PlanOfTool
            /\ pc' = "new_tool"
            /\ UNCHANGED second
       ELSE /\ second' = PlanOfTool
            /\ pc' = "plans_built"
            /\ UNCHANGED first
  /\ UNCHANGED <<planframe, tool>>

\* lines 67-72: another AFOTFlashTool object, on a host where _find_tool
\* finds other tools
NewTool ==
  /\ pc = "new_tool"
  /\ adb_path' \in BOOLEAN
  /\ fastboot_path' \in BOOLEAN
  /\ heimdall_path' \in BOOLEAN
  /\ pc' = "plan_second"
  /\ UNCHANGED <<planframe, flash_commands, first, second>>

NextPlan == BuildPlan \/ NewTool

SpecPlan == InitPlan /\ [][NextPlan]_vars

\* C24: plan determinism.  The plan built a second time for the same
\* profile and the same package, by a tool object with other tool paths,
\* has the same steps in the same order as the plan built the first time.
C24_PlanDeterministic ==
  pc = "plans_built" => second.plan = first.plan

\* Two plans of two steps built by tool objects of which one found adb and
\* the other did not.
C24_Witness ==
  /\ pc = "plans_built"
  /\ first.tool[1] # second.tool[1]
  /\ Len(second.plan) = 2
  /\ ~device_config.supports_ab

\* ------------------------------------------------------------------------
\* Detection claims
\* ------------------------------------------------------------------------

IsAdbProbe(c) == c.cmd.tool = "adb"
IsFastbootProbe(c) == c.cmd.tool = "fastboot"

\* The getprop of the adb strategy returned the codename of a registered
\* device.
AdbFound(c) ==
  /\ c.cmd.op = "shell getprop ro.product.device"
  /\ c.returned
  /\ c.ret = 0
  /\ c.stdout \in {"j5nlte\n"}

\* C25: detector strategy order.  In a detection, every adb command comes
\* before every fastboot command; the adb strategy asks for the codename
\* only after its enumeration; and once the adb strategy has given the
\* codename of a registered device, that codename is the result and no
\* fastboot command is issued.
C25_StrategyOrder ==
  /\ \A i, j \in 1..Len(probes) :
       IsFastbootProbe(probes[i]) /\ IsAdbProbe(probes[j]) => j < i
  /\ \A i \in 1..Len(probes) :
       probes[i].cmd.op = "shell getprop ro.product.device" =>
         i = 2 /\ probes[1].cmd.op = "devices" /\ IsAdbProbe(probes[1])
  /\ \A i \in 1..Len(probes) :
       AdbFound(probes[i]) =>
         /\ i = Len(probes)
         /\ device_codename = Strip(probes[i].stdout)
         /\ pc \notin {"detect_fastboot", "detect_getvar"}

\* A detection that stopped at the adb strategy, in a run that went on to
\* flash with the codename it gave.
C25_Witness ==
  /\ Len(probes) = 2
  /\ AdbFound(probes[2])
  /\ fastboot_path
  /\ device_codename = "j5nlte"
  /\ result = "True"

\* ------------------------------------------------------------------------
\* detect_device called twice in a device environment that does not change
\* ------------------------------------------------------------------------

InitDetect ==
  /\ adb_path \in BOOLEAN
  /\ fastboot_path \in BOOLEAN
  /\ heimdall_path = TRUE
  /\ detect_env \in FixedEnvironments
  /\ caller = "detect_device"
  /\ build_config = NoBuild /\ build_root = "missing"
  /\ options = DefaultOptions
  /\ registry = devices_db
  /\ odin3_exe = FALSE
  /\ device_codename = NotGiven
  /\ rom_path = RomPath(".zip")
  /\ rom_exists = TRUE
  /\ archive = {}
  /\ extract_dir = {}
  /\ listing = <<>>
  /\ dir_exists = FALSE
  /\ made_dir = FALSE
  /\ devLocked = FALSE
  /\ package = EmptyPackage
  /\ flash_commands = <<>>
  /\ idx = 1
  /\ cmds = <<>>
  /\ echoed = 0
  /\ result = "none"
  /\ reason = ""
  /\ phases = <<"Idle">>
  /\ probes = <<>>
  /\ exit_code = <<>>
  /\ first = <<>>
  /\ second = <<>>
  /\ pc = "detect_device"

NextDetect ==
  \/ DetectAdbDevices
  \/ DetectGetprop
  \/ DetectFastbootDevices
  \/ DetectGetvar

SpecDetect == InitDetect /\ [][NextDetect]_vars

\* The interpreter goes on with the next statement of detect_device when
\* there is one to go on with.
SpecDetectFair == SpecDetect /\ WF_vars(NextDetect)

\* C26: detector progress.  Whatever the adb backend does (absent, failing,
\* hanging), a call of detect_device eventually returns, with a codename or
\* with None: no probe that hangs blocks the detection forever.
C26_DetectorProgress == <>(first # <<>>)

\* The commands that only enumerate devices or read a value.
ReadCommands ==
  {"devices", "shell getprop ro.product.device", "getvar product"}

\* C27: detection is read-only and idempotent.  Every command of a
\* detection is an enumeration or a read; no step of it changes the
\* registry or the tool paths; and the second of two calls, in a device
\* environment that answers every command as it did before, returns what
\* the first returned.
C27_DetectionReadOnlyIdempotent ==
  /\ [](/\ \A i \in 1..Len(probes) : probes[i].cmd.op \in ReadCommands
        /\ cmds = <<>>
        /\ registry = devices_db
        /\ pc = "detected_twice" => second = first)
  /\ [][UNCHANGED <<registry, tool>>]_vars

\* Two detections that each found no device on adb and sailfish on
\* fastboot.
C27_Witness ==
  /\ pc = "detected_twice"
  /\ first = <<"sailfish">>
  /\ second = <<"sailfish">>
  /\ Len(probes) = 8

\* ------------------------------------------------------------------------
\* Registry claims
\* ------------------------------------------------------------------------

\* Codenames a caller can ask for that are not keys of the shipped registry.
UnsupportedCodenames == ({UnknownCodename} \cup OtherMethods) \ Codenames

\* C28: registry well-formedness.  For every codename that is a key of the
\* registry the lookup gives a profile whose codename field is that key,
\* whose partition table is not empty and whose flash method is one of the
\* five members of FlashMethod; for any other codename the lookup gives
\* NotFound, and flash_device then returns False with "Unsupported device".
C28_RegistryWellFormed ==
  /\ \A c \in Codenames :
       /\ Lookup(c) # NotFound
       /\ Lookup(c).codename = c
       /\ Len(Lookup(c).partitions) > 0
       /\ Lookup(c).flash_method \in FlashMethod
  /\ \A c \in UnsupportedCodenames : Lookup(c) = NotFound
  /\ pc # "flash_device" =>
       /\ device_codename \in Codenames =>
            device_config.codename = device_codename
       /\ device_codename \notin Codenames <=>
            (result = "False" /\ reason = "Unsupported device")

\* The lookup has been made for the second Galaxy J5 codename and the run
\* went on with its profile.
C28_Witness ==
  /\ pc = "check_prerequisites"
  /\ device_codename = "j5xnlte"
  /\ device_config.codename = "j5xnlte"
  /\ device_config.flash_method = HEIMDALL

\* C29: registry immutability.  No step of main, detect_device,
\* check_prerequisites, prepare_flash_package, flash_fastboot,
\* flash_heimdall or flash_device adds, removes or changes a profile of the
\* registry, whether the step succeeds, fails or raises: the registry is at
\* every moment the one _load_devices_database built.
C29_RegistryImmutable ==
  /\ [](registry = devices_db)
  /\ [][registry' = registry]_vars

\* A run that detected the device and flashed it, and one cannot tell from
\* the registry: detect_device, check_prerequisites, prepare_flash_package
\* and flash_fastboot have all acted.
C29_Witness ==
  /\ caller = "main"
  /\ build_config = NoBuild /\ build_root = "missing"
  /\ options = DefaultOptions
  /\ pc = "exited"
  /\ exit_code = <<0>>
  /\ Len(probes) > 0
  /\ Len(cmds) > 0
  /\ device_config.flash_method = FASTBOOT
  /\ registry = devices_db

\* ------------------------------------------------------------------------
\* The composite write of flash_heimdall
\* ------------------------------------------------------------------------

IsHeimdallWrite(c) == c.cmd.tool = "heimdall" /\ c.cmd.op = "flash"
HeimdallWrites == SelectSeq(cmds, IsHeimdallWrite)

\* flash_heimdall was called and has returned.
HeimdallReturned ==
  /\ pc = "done"
  /\ Registered
  /\ device_config.flash_method = HEIMDALL
  /\ Reached("PlanBuilt")

\* The entries of the profile's partition table that the package has an
\* image for.
BoundInTable ==
  {p \in Range(device_config.partitions) : package[LogicalOf(p)] # None}

\* C30: the download-mode backend issues one composite write.  No run has
\* more than one 'heimdall flash' command; a run in which flash_heimdall
\* was called has exactly one, and that command names the partitions that
\* are in the profile's table and bound by the package, all of them, each
\* once, with the image the package binds, in the order of the table.
C30_OneCompositeWrite ==
  /\ Len(HeimdallWrites) <= 1
  /\ HeimdallReturned =>
       /\ Len(HeimdallWrites) = 1
       /\ LET args == HeimdallWrites[1].cmd.args
              table == device_config.partitions
              At(i) == CHOOSE k \in 1..Len(table) :
                         Upper(table[k]) = args[i].part
          IN /\ {args[i].part : i \in 1..Len(args)}
                  = {Upper(p) : p \in BoundInTable}
             /\ Len(args) = Cardinality(BoundInTable)
             /\ \A i \in 1..Len(args) :
                  args[i].img = package[LogicalOf(table[At(i)])]
             /\ \A i, j \in 1..Len(args) : i < j => At(i) < At(j)

\* One composite write was run for the Galaxy J5: it names two partitions,
\* the table's boot partition has no image and the package's vendor image
\* has no partition in the table.
C30_Witness ==
  /\ HeimdallReturned
  /\ result = "True"
  /\ device_codename = "j5nlte"
  /\ Len(HeimdallWrites) = 1
  /\ Len(HeimdallWrites[1].cmd.args) = 2
  /\ package["boot"] = None
  /\ package["vendor"] # None

\* ------------------------------------------------------------------------
\* Special instructions
\* ------------------------------------------------------------------------

\* The places of flash_device from which a partition write can be the next
\* command.
BeforeWrite == pc \in {"fb_loop", "hd_run"}

\* C31: special instructions precede destruction.  Wherever a partition
\* write is about to be run or has been run, every special instruction of
\* the profile has been logged to the operator.
C31_InstructionsBeforeWrites ==
  (BeforeWrite \/ Writes # <<>>) =>
     /\ Registered
     /\ echoed = device_config.special_instructions

\* A first partition write has just been run for the Pixel, after its three
\* instructions were logged.
C31_Witness ==
  /\ Len(Writes) = 1
  /\ device_codename = "sailfish"
  /\ echoed = 3

\* ------------------------------------------------------------------------
\* The exit status of the command line
\* ------------------------------------------------------------------------

\* C32: the exit status of a flash invocation.  While main runs there is no
\* status; when it has ended the status is 0 or 1, and it is 0 exactly when
\* flash_device was called and returned True.  A missing ROM file, a device
\* that is not given and not detected, a False from flash_device and an
\* exception that leaves flash_device all end with status 1.
C32_ExitCode ==
  /\ pc # "exited" <=> exit_code = <<>>
  /\ pc = "exited" =>
       /\ exit_code \in {<<0>>, <<1>>}
       /\ exit_code = <<0>> <=> result = "True"
       /\ ~rom_exists => exit_code = <<1>> /\ reason = "ROM file not found"
       /\ result = "True" => Last(phases) = "Succeeded"

\* A run of main that ended with status 1 after a partition write failed.
C32_Witness ==
  /\ pc = "exited"
  /\ exit_code = <<1>>
  /\ result = "False"
  /\ Writes # <<>>
  /\ Last(Writes).ret # 0

\* ------------------------------------------------------------------------
\* Two tool instances given archives of one stem in one directory
\* ------------------------------------------------------------------------

\* What the two calls of prepare_flash_package leave as it is.
instanceframe == <<tool, device_codename, rom_path, rom_exists, archive,
                   devLocked, package, flash_commands, idx, cmds, echoed,
                   result, reason, phases, registry, aux, pc>>

\* Names of the members of the two archives.
MemberNames == {"boot.img", "BOOT.img", "system.img"}

\* An instance about to call prepare_flash_package for the archive rom.zip
\* or rom.tar of one directory.  Lines 289 and 321 name the extraction
\* directory by the parent and the stem of the ROM path and by nothing
\* else, so both instances extract to rom_extracted, the directory that
\* listing and extract_dir describe.
Instances ==
  [suffix : {".zip", ".tar"}, members : Subsets(MemberNames, MaxMembers),
   at : {"extract"}, package : {EmptyPackage}]

\* The two instances, each bound to a device of its own, are started
\* together; the extraction directory does not exist yet.  Two instances
\* given the same path are given the same archive.
InitInstances ==
  /\ detect_env = <<>>
  /\ caller = "two_instances"
  /\ build_config = NoBuild /\ build_root = "missing"
  /\ options = DefaultOptions
  /\ adb_path = TRUE /\ fastboot_path = TRUE /\ heimdall_path = TRUE
  /\ device_codename = "gsi"
  /\ registry = devices_db
  /\ odin3_exe = FALSE
  /\ rom_path = RomPath(".zip")
  /\ rom_exists = TRUE
  /\ archive = {}
  /\ extract_dir = {}
  /\ listing = <<>>
  /\ dir_exists = FALSE
  /\ made_dir = FALSE
  /\ devLocked = FALSE
  /\ package = EmptyPackage
  /\ flash_commands = <<>>
  /\ idx = 1
  /\ cmds = <<>>
  /\ echoed = 0
  /\ result = "none"
  /\ reason = ""
  /\ phases = <<"Idle">>
  /\ probes = <<>>
  /\ exit_code = <<>>
  /\ first \in Instances
  /\ second \in Instances
  /\ first.suffix = second.suffix => first.members = second.members
  /\ pc = "two_instances"

\* lines 289-293 and 321-325: mkdir(exist_ok=True), then extractall into the
\* directory, whoever made it and whatever is in it; the tar branch then
\* returns the empty package (line 327)
Extracted(inst) ==
  [inst EXCEPT !.at = IF inst.suffix = ".zip" THEN "glob" ELSE "returned"]

ExtractInto(inst) ==
  /\ inst.at = "extract"
  /\ \E new \in ExtractAll(listing, inst.members) :
       /\ listing' = new
       /\ extract_dir' = Range(new)
  /\ dir_exists' = TRUE
  /\ made_dir' = TRUE

\* lines 296-313: the images found in the directory are bound
Globbed(inst) ==
  [inst EXCEPT !.at = "returned", !.package = ZipPackage(listing)]

FirstExtracts ==
  /\ ExtractInto(first)
  /\ first' = Extracted(first)
  /\ UNCHANGED <<second, instanceframe>>

FirstGlobs ==
  /\ first.at = "glob"
  /\ first' = Globbed(first)
  /\ UNCHANGED <<second, listing, extract_dir, dirstate, instanceframe>>

SecondExtracts ==
  /\ ExtractInto(second)
  /\ second' = Extracted(second)
  /\ UNCHANGED <<first, instanceframe>>

SecondGlobs ==
  /\ second.at = "glob"
  /\ second' = Globbed(second)
  /\ UNCHANGED <<first, listing, extract_dir, dirstate, instanceframe>>

NextInstances ==
  \/ FirstExtracts
  \/ FirstGlobs
  \/ SecondExtracts
  \/ SecondGlobs

SpecInstances == InitInstances /\ [][NextInstances]_vars

\* The packages prepare_flash_package can return to an instance that runs
\* alone, the directory holding what it extracted and nothing else.
PackagesAlone(inst) ==
  IF inst.suffix = ".zip"
    THEN {ZipPackage(l) : l \in Listings(inst.members)}
    ELSE {EmptyPackage}

\* C33: independent instances share nothing mutable.  The package an
\* instance gets back is one it can get when it runs alone, whatever the
\* other instance does meanwhile, and while only one instance has
\* extracted, the directory holds that instance's members only.
C33_InstancesIndependent ==
  /\ first.at = "returned" => first.package \in PackagesAlone(first)
  /\ second.at = "returned" => second.package \in PackagesAlone(second)
  /\ first.at # "extract" /\ second.at = "extract" =>
       extract_dir = first.members

\* ------------------------------------------------------------------------
\* The adb strategy of detect_device
\* ------------------------------------------------------------------------

IsGetprop(p) == p.cmd.op = "shell getprop ro.product.device"
IsAdbDevices(p) == p.cmd.tool = "adb" /\ p.cmd.op = "devices"

\* The listing of 'adb devices' has a line for a device in the state
\* "device", the state of an attached and authorized one.
ListsAuthorizedDevice(stdout) ==
  stdout = "List of devices attached\nserial\tdevice\n"

\* C34: the adb strategy requires an attached authorized device.  The
\* property read over adb is issued only right after an 'adb devices' that
\* exited 0 and listed a device in the authorized state; after a listing
\* without one, no property is read.
C34_GetpropNeedsAuthorizedDevice ==
  \A i \in 1..Len(probes) :
    IsGetprop(probes[i]) =>
      /\ i > 1
      /\ IsAdbDevices(probes[i - 1])
      /\ probes[i - 1].ret = 0
      /\ ListsAuthorizedDevice(probes[i - 1].stdout)

\* ------------------------------------------------------------------------
\* Where bound images come from
\* ------------------------------------------------------------------------

\* The names of the files a package binds.
BoundNames(pkg) == {pkg[r].name : r \in {q \in Roles : pkg[q] # None}}

\* C35: bound images come only from the archive being decomposed.  Every
\* image bound by a zip decomposition is a member of the archive of that
\* call; a file that an earlier decomposition of another archive of the
\* same stem left in the extraction directory is not bound.
C35_BoundFromArchiveOnly ==
  pc \in {"decompose_second", "decomposed_twice"} =>
    BoundNames(package) \subseteq archive

\* ------------------------------------------------------------------------
\* What detect_device returns
\* ------------------------------------------------------------------------

\* A command of the detection exited 0 and gave a codename that is not a
\* key of the registry.
ReportedUnregistered(p) ==
  /\ p.ret = 0
  /\ \/ IsGetprop(p) /\ Strip(p.stdout) = UnknownCodename
     \/ p.cmd.op = "getvar product" /\ p.stdout = "product: herolte\n"

\* C36: detect_device returns only registered codenames.  What a call
\* returns is None or a key of the registry, on the adb strategy and on
\* the fastboot strategy, whatever codenames the device reported.
C36_DetectedIsRegistered ==
  /\ first # <<>> => first[1] \in DOMAIN registry \cup {NotGiven}
  /\ second # <<>> => second[1] \in DOMAIN registry \cup {NotGiven}
  /\ UnknownCodename \notin DOMAIN registry

\* The device gave an unregistered codename over adb and again over
\* fastboot, and the call returned None.
C36_Witness ==
  /\ first = <<NotGiven>>
  /\ Len(probes) >= 4
  /\ ReportedUnregistered(probes[2])
  /\ ReportedUnregistered(probes[4])

\* ------------------------------------------------------------------------
\* The tools a fastboot profile needs
\* ------------------------------------------------------------------------

\* C37: the tooling a fastboot profile needs is the fastboot binary.  For a
\* fastboot profile with fastboot on the host, the run does not fail with
\* the missing-tools error, with or without adb: it goes on to the
\* enumeration of the devices in fastboot mode.
C37_FastbootNeedsOnlyFastboot ==
  /\ Registered
  /\ device_config.flash_method = FASTBOOT
  /\ fastboot_path
  /\ pc \notin {"flash_device", "check_prerequisites"}
  => /\ reason # "Missing required tools"
     /\ cmds # <<>>
     /\ cmds[1].cmd.tool = "fastboot" /\ cmds[1].cmd.op = "devices"

\* ------------------------------------------------------------------------
\* flash_device called twice with different options
\* ------------------------------------------------------------------------

\* A raw image that exists, every tool on the host, any registered device
\* and any combination of wipe_data and backup_efs.
InitOptions ==
  /\ InitCommon
  /\ adb_path /\ fastboot_path /\ heimdall_path
  /\ rom_path = RomPath(".img")
  /\ rom_exists
  /\ extract_dir = {}
  /\ detect_env = <<>>
  /\ caller = "flash_device"
  /\ build_config = NoBuild /\ build_root = "missing"
  /\ options \in Options
  /\ registry = devices_db
  /\ odin3_exe = FALSE
  /\ device_codename \in Codenames
  /\ pc = "flash_device"

\* The first call has returned: what it ran and returned is kept, and
\* flash_device is called again for the same device and ROM with other
\* options.
CallAgain ==
  /\ pc = "done"
  /\ DOMAIN first = {}
  /\ first' = [cmds |-> cmds, result |-> result, options |-> options]
  /\ options' \in Options \ {options}
  /\ pc' = "flash_device"
  /\ package' = EmptyPackage
  /\ flash_commands' = <<>>
  /\ idx' = 1
  /\ cmds' = <<>>
  /\ echoed' = 0
  /\ result' = "none"
  /\ reason' = ""
  /\ phases' = <<"Idle">>
  /\ UNCHANGED <<tool, device_codename, rom_path, rom_exists, archive,
                 extract_dir, devLocked, registry, odin3_exe, probes,
                 exit_code, dirstate, listing, second, detect_env, caller,
                 build_config, build_root>>

NextOptions ==
  \/ Next
  \/ CallAgain

SpecOptions == InitOptions /\ [][NextOptions]_vars

\* What a command gave back to the tool.
Response(c) == <<c.ret, c.stdout, c.returned>>

\* The first n commands of this call were answered as the first n commands
\* of the first call were.
SameResponses(n) ==
  /\ n <= Len(first.cmds)
  /\ \A j \in 1..n : Response(cmds[j]) = Response(first.cmds[j])

max_retries == 3
SYNC_TIMEOUT == 7200

\* build_gsi: timeout=14400 of 'make systemimage'.
BUILD_TIMEOUT == 14400

\* The values of config.parallel_jobs the model builds with.
ParallelJobs == {4, 8}

\* The BuildConfig fields the two operations read.
BuildConfigs == [parallel_jobs : ParallelJobs, clean_build : BOOLEAN]

\* self.build_root on disk: nothing, a directory, or a file, for which
\* exists() is true and os.chdir raises NotADirectoryError.
BuildRoots == {"missing", "directory", "file"}

\* What the operations of the build system leave as it is.
buildframe == <<tool, input, extract_dir, devLocked, package, flash_commands,
                echoed, phases, registry, aux, dirstate, repeated>>

InitBuild(operation) ==
  /\ InitCommon
  /\ adb_path /\ fastboot_path /\ heimdall_path
  /\ rom_path = RomPath(".zip")
  /\ rom_exists
  /\ extract_dir = {}
  /\ devLocked = FALSE
  /\ detect_env = <<>>
  /\ caller = operation
  /\ options = DefaultOptions
  /\ build_config \in BuildConfigs
  /\ build_root \in BuildRoots
  /\ registry = devices_db
  /\ odin3_exe = FALSE
  /\ device_codename = "gsi"
  /\ pc = operation

\* A build operation returns.
Returns(value, msg) ==
  /\ pc' = "done"
  /\ result' = value
  /\ reason' = msg

\* lines 178-182: the source directory is looked for and entered
SyncSourcesEnter ==
  /\ pc = "sync_sources"
  /\ CASE build_root = "missing" ->
            Returns("False", "Source directory not found")
       [] build_root = "file" ->
            /\ pc' = "raised"
            /\ UNCHANGED <<result, reason>>
       [] OTHER ->
            /\ pc' = "sync_attempt"
            /\ UNCHANGED <<result, reason>>
  /\ UNCHANGED <<buildframe, idx, cmds>>

\* A sync that never counts as done.
SyncNeverSucceeds(ret) == FALSE

\* line 193: if ret == 0
SyncSucceeded(ret) == ret = 0

\* lines 186-195: one pass of the loop up to the test of the return code;
\* idx is attempt + 1
SyncAttempt ==
  /\ pc = "sync_attempt"
  /\ \E beh \in Behaviours :
       LET timeout == Timeout(SYNC_TIMEOUT)
           cmd == Command("repo", "sync", <<build_config.parallel_jobs>>,
                          timeout)
           res == run_command(beh, timeout)
       IN /\ cmds' = Append(cmds, Ran(cmd, res))
          /\ IF SyncSucceeded(res.ret)
               THEN Returns("True", "")
               ELSE /\ pc' = "sync_sleep"
                    /\ UNCHANGED <<result, reason>>
  /\ UNCHANGED <<buildframe, idx>>

\* range(max_retries) has a next attempt.
HasNextAttempt(attempt) == attempt < max_retries

\* lines 197-201: the warning and the sleep that follow every failed
\* attempt, the third one too, then the next pass or the end of the loop
SyncSleep ==
  /\ pc = "sync_sleep"
  /\ IF HasNextAttempt(idx)
       THEN /\ idx' = idx + 1
            /\ pc' = "sync_attempt"
            /\ UNCHANGED <<result, reason>>
       ELSE /\ Returns("False", "Failed to sync sources after all retries")
            /\ UNCHANGED idx
  /\ UNCHANGED <<buildframe, cmds>>

InitSync == InitBuild("sync_sources")

NextSync ==
  \/ SyncSourcesEnter
  \/ SyncAttempt
  \/ SyncSleep

SpecSync == InitSync /\ [][NextSync]_vars

\* subprocess.run returns or raises within its timeout and time.sleep(30)
\* returns: a step that can be taken is taken.
SpecSyncFair == SpecSync /\ WF_vars(NextSync)

IsSync(c) == c.cmd.tool = "repo" /\ c.cmd.op = "sync"
SyncEnded == pc \in {"done", "raised"}

\* C39: bounded source-sync retry.  sync_sources runs the sync command at
\* most three times and nothing else; every attempt but the last one made
\* has failed; it returns True exactly when the last attempt succeeded and
\* False after three failed attempts, or with no attempt at all when the
\* source directory does not exist; and every call ends.
C39_BoundedSyncRetry ==
  /\ [](/\ Len(cmds) <= max_retries
        /\ \A i \in 1..Len(cmds) :
             /\ IsSync(cmds[i])
             /\ cmds[i].cmd.timeout = Timeout(SYNC_TIMEOUT)
             /\ i < Len(cmds) => cmds[i].ret # 0
        /\ result = "True" =>
             /\ cmds # <<>>
             /\ Last(cmds).ret = 0
        /\ cmds # <<>> /\ Last(cmds).ret = 0 => result = "True"
        /\ result = "False" /\ build_root # "missing" =>
             /\ Len(cmds) = max_retries
             /\ \A i \in 1..Len(cmds) : cmds[i].ret # 0
        /\ pc = "done" /\ Len(cmds) = max_retries /\ Last(cmds).ret # 0 =>
             result = "False"
        /\ build_root = "missing" /\ pc # "sync_sources" =>
             /\ result = "False"
             /\ cmds = <<>>
             /\ reason = "Source directory not found")
  /\ <>SyncEnded

\* Two attempts failed, one of them by running into its timeout, and the
\* third succeeded: sync_sources returned True after three attempts.
C39_Witness ==
  /\ pc = "done"
  /\ result = "True"
  /\ Len(cmds) = 3
  /\ cmds[1].stderr = "Command timed out"
  /\ cmds[2].ret = 1
  /\ cmds[3].ret = 0

\* ------------------------------------------------------------------------
\* build_gsi
\* ------------------------------------------------------------------------

\* lines 264-267
gsi_targets == <<"aosp_arm64_ab-userdebug", "aosp_arm_ab-userdebug">>

\* A command of build_gsi has been run: it is in the log, and the call is
\* left waiting for it if it was given no timeout and never ends.
GsiRan(cmd, beh, after) ==
  IF Blocks(beh, cmd.timeout)
    THEN /\ pc' = "blocked"
         /\ cmds' = Append(cmds, NeverReturned(cmd))
         /\ UNCHANGED <<result, reason, idx>>
    ELSE /\ cmds' = Append(cmds, Ran(cmd, run_command(beh, cmd.timeout)))
         /\ after

\* The for loop goes to its next target, or build_gsi returns True when
\* there is none (line 292).
NextTarget ==
  /\ idx' = idx + 1
  /\ IF idx < Len(gsi_targets)
       THEN /\ pc' = "gsi_lunch"
            /\ UNCHANGED <<result, reason>>
       ELSE Returns("True", "")

\* lines 255-261: os.chdir(self.build_root), which raises when it is not a
\* directory, then the build environment is set up
GsiSetup ==
  /\ pc = "build_gsi"
  /\ IF build_root # "directory"
       THEN /\ pc' = "raised"
            /\ UNCHANGED <<result, reason, idx, cmds>>
       ELSE \E beh \in Behaviours :
              LET cmd == Command("bash", "envsetup", <<>>, NoTimeout)
                  ret == run_command(beh, NoTimeout).ret
              IN GsiRan(cmd, beh,
                        IF ret # 0
                          THEN /\ Returns("False",
                                          "Failed to setup build environment")
                               /\ UNCHANGED idx
                          ELSE /\ pc' = "gsi_lunch"
                               /\ UNCHANGED <<result, reason, idx>>)
  /\ UNCHANGED buildframe

\* lines 269-275: the lunch of the target; when it fails, logger.error and
\* continue
GsiLunch ==
  /\ pc = "gsi_lunch"
  /\ \E beh \in Behaviours :
       LET cmd == Command("bash", "lunch", <<gsi_targets[idx]>>, NoTimeout)
           ret == run_command(beh, NoTimeout).ret
       IN GsiRan(cmd, beh,
                 IF ret # 0
                   THEN NextTarget
                   ELSE /\ pc' = IF build_config.clean_build
                                   THEN "gsi_clean" ELSE "gsi_make"
                        /\ UNCHANGED <<result, reason, idx>>)
  /\ UNCHANGED buildframe

\* lines 278-279: make clean, whose return code is not looked at
GsiClean ==
  /\ pc = "gsi_clean"
  /\ \E beh \in Behaviours :
       GsiRan(Command("make", "clean", <<>>, NoTimeout), beh,
              /\ pc' = "gsi_make"
              /\ UNCHANGED <<result, reason, idx>>)
  /\ UNCHANGED buildframe

\* lines 282-290: the build of the target
GsiMake ==
  /\ pc = "gsi_make"
  /\ \E beh \in Behaviours :
       LET timeout == Timeout(BUILD_TIMEOUT)
           cmd == Command("make", "systemimage",
                          <<build_config.parallel_jobs>>, timeout)
           ret == run_command(beh, timeout).ret
       IN GsiRan(cmd, beh,
                 IF ret # 0
                   THEN /\ Returns("False", "Failed to build")
                        /\ UNCHANGED idx
                   ELSE NextTarget)
  /\ UNCHANGED buildframe

InitGsi == InitBuild("build_gsi")

NextGsi ==
  \/ GsiSetup
  \/ GsiLunch
  \/ GsiClean
  \/ GsiMake

SpecGsi == InitGsi /\ [][NextGsi]_vars

\* The i-th command of the log is the lunch of the target and exited 0.
LunchedAt(i, target) ==
  /\ cmds[i].cmd.op = "lunch"
  /\ cmds[i].cmd.args = <<target>>
  /\ cmds[i].returned /\ cmds[i].ret = 0

\* The target was built: its lunch succeeded and the next 'make
\* systemimage' of the log succeeded.
Built(target) ==
  \E i \in 1..Len(cmds) :
    /\ LunchedAt(i, target)
    /\ \E j \in (i + 1)..Len(cmds) :
         /\ j <= i + 2
         /\ cmds[j].cmd.op = "systemimage"
         /\ cmds[j].returned /\ cmds[j].ret = 0

\* A lunch or a build of the log failed.
LunchOrBuildFailed ==
  \E i \in 1..Len(cmds) :
    /\ cmds[i].cmd.op \in {"lunch", "systemimage"}
    /\ cmds[i].returned /\ cmds[i].ret # 0

\* C40: GSI build success means that every target was built.  build_gsi
\* returns True only if the lunch and the build of each of the two targets
\* succeeded, and it returns False when a lunch or a build has failed.
C40_GsiSuccessMeansAllBuilt ==
  /\ result = "True" =>
       \A t \in 1..Len(gsi_targets) : Built(gsi_targets[t])
  /\ pc = "done" /\ LunchOrBuildFailed => result = "False"

====
